---- MODULE Spec2Model ----
(***************************************************************************)
(* Duplicate code detection engine of AIGuardian                           *)
(* (src/lib/tasks/common/format-code.js): block extraction, normalization, *)
(* similarity scoring and greedy clustering.                               *)
(*                                                                         *)
(* Texts are TLA+ strings, read character by character with SubSeq.  Array *)
(* indices are 1-based here and 0-based in the source; line numbers are    *)
(* 1-based in both.  Similarity scores are exact rationals [num, den] in   *)
(* lowest terms (the source computes them in IEEE doubles).                *)
(***************************************************************************)
EXTENDS Integers, Sequences, FiniteSets, TLC

(***************************************************************************)
(* Characters and strings                                                  *)
(***************************************************************************)

\* the i-th character of s, "" outside the string
Ch(s, i) == IF i >= 1 /\ i <= Len(s) THEN SubSeq(s, i, i) ELSE ""

\* s from position i to its end
From(s, i) == SubSeq(s, i, Len(s))

\* String.prototype.startsWith / endsWith
StartsWith(s, p) == Len(p) <= Len(s) /\ SubSeq(s, 1, Len(p)) = p

EndsWith(s, p) == Len(p) <= Len(s) /\ SubSeq(s, Len(s) - Len(p) + 1, Len(s)) = p

\* does p occur in s at position i
At(s, i, p) == i + Len(p) - 1 <= Len(s) /\ SubSeq(s, i, i + Len(p) - 1) = p

\* the regular-expression class \s, and the characters trim() strips
WhiteSpace == {" ", "\t", "\n", "\r", "\f"}

\* the characters the regular-expression dot does not match
LineTerminator == {"\n", "\r"}

Digit == {"0", "1", "2", "3", "4", "5", "6", "7", "8", "9"}

Lower == {"a", "b", "c", "d", "e", "f", "g", "h", "i", "j", "k", "l", "m",
          "n", "o", "p", "q", "r", "s", "t", "u", "v", "w", "x", "y", "z"}

Upper == {"A", "B", "C", "D", "E", "F", "G", "H", "I", "J", "K", "L", "M",
          "N", "O", "P", "Q", "R", "S", "T", "U", "V", "W", "X", "Y", "Z"}

\* [a-zA-Z_], the first character of an identifier
IdentStart == Lower \cup Upper \cup {"_"}

\* the regular-expression class \w, which decides the \b boundaries
WordChar == IdentStart \cup Digit

Quote == {"'", "\""}

\* the first position >= i of s whose character is not in cls (Len(s)+1 if none)
RECURSIVE SkipWhile(_, _, _)
SkipWhile(s, i, cls) ==
  IF i <= Len(s) /\ Ch(s, i) \in cls THEN SkipWhile(s, i + 1, cls) ELSE i

\* the last position <= i of s whose character is not in cls (0 if none)
RECURSIVE SkipBack(_, _, _)
SkipBack(s, i, cls) ==
  IF i >= 1 /\ Ch(s, i) \in cls THEN SkipBack(s, i - 1, cls) ELSE i

\* String.prototype.trim
Trim(s) ==
  LET a == SkipWhile(s, 1, WhiteSpace)
      b == SkipBack(s, Len(s), WhiteSpace)
  IN IF a > b THEN "" ELSE SubSeq(s, a, b)

\* the first position >= i where p occurs in s, 0 if none
IndexOf(s, p, i) ==
  LET hits == {k \in i..(Len(s) - Len(p) + 1) : At(s, k, p)}
  IN IF hits = {} THEN 0 ELSE CHOOSE k \in hits : \A m \in hits : k <= m

\* String.prototype.includes
Includes(s, p) == IndexOf(s, p, 1) # 0

\* number of occurrences of the character c in s: (s.match(/c/g) || []).length
CountChar(s, c) == Cardinality({k \in 1..Len(s) : Ch(s, k) = c})

\* String.prototype.split(sep) for a one-character separator
RECURSIVE Split(_, _)
Split(s, sep) ==
  LET k == IndexOf(s, sep, 1)
  IN IF k = 0 THEN <<s>>
     ELSE <<SubSeq(s, 1, k - 1)>> \o Split(From(s, k + 1), sep)

\* Array.prototype.join
RECURSIVE Join(_, _)
Join(parts, sep) ==
  IF parts = <<>> THEN ""
  ELSE IF Len(parts) = 1 THEN parts[1]
  ELSE parts[1] \o sep \o Join(Tail(parts), sep)

(***************************************************************************)
(* normalizeContent                                                        *)
(***************************************************************************)

\* the first position >= i of s whose character is in cls (Len(s)+1 if none)
RECURSIVE SkipUntil(_, _, _)
SkipUntil(s, i, cls) ==
  IF i <= Len(s) /\ Ch(s, i) \notin cls THEN SkipUntil(s, i + 1, cls) ELSE i

\* Each pass copies the text up to its next match, writes the replacement
\* and goes on behind the match.

\* .replace(/\s+/g, ' ')
RECURSIVE CollapseWhitespace(_)
CollapseWhitespace(s) ==
  LET p == SkipUntil(s, 1, WhiteSpace)
  IN IF p > Len(s) THEN s
     ELSE SubSeq(s, 1, p - 1) \o " "
          \o CollapseWhitespace(From(s, SkipWhile(s, p, WhiteSpace)))

\* .replace(/\/\/.*$/gm, ''): from // up to the end of the line
RECURSIVE StripLineComments(_)
StripLineComments(s) ==
  LET p == IndexOf(s, "//", 1)
  IN IF p = 0 THEN s
     ELSE SubSeq(s, 1, p - 1)
          \o StripLineComments(From(s, SkipUntil(s, p + 2, LineTerminator)))

\* .replace(/\/\*[\s\S]*?\*\//g, ''): from /* to the nearest */ ; a /* that
\* is never closed is left in place
RECURSIVE StripBlockComments(_)
StripBlockComments(s) ==
  LET p == IndexOf(s, "/*", 1)
      close == IF p = 0 THEN 0 ELSE IndexOf(s, "*/", p + 2)
  IN IF close = 0 THEN s
     ELSE SubSeq(s, 1, p - 1) \o StripBlockComments(From(s, close + 2))

\* the replacement text of the string-literal pass
StringPlaceholder == "\"STRING\""

\* .replace(/['"].*?['"]/, '"STRING"'): no g flag, so only the leftmost match
\* is replaced; the match runs from a quote to the nearest later quote of
\* either kind on the same line
RECURSIVE MaskFirstString(_)
MaskFirstString(s) ==
  LET p == SkipUntil(s, 1, Quote)
      close == SkipUntil(s, p + 1, Quote \cup LineTerminator)
  IN IF p > Len(s) \/ close > Len(s) THEN s
     ELSE IF Ch(s, close) \in Quote
     THEN SubSeq(s, 1, p - 1) \o StringPlaceholder \o From(s, close + 1)
     ELSE SubSeq(s, 1, close) \o MaskFirstString(From(s, close + 1))

\* .replace(/\d+/g, '0')
RECURSIVE NormalizeNumbers(_)
NormalizeNumbers(s) ==
  LET p == SkipUntil(s, 1, Digit)
  IN IF p > Len(s) THEN s
     ELSE SubSeq(s, 1, p - 1) \o "0"
          \o NormalizeNumbers(From(s, SkipWhile(s, p, Digit)))

\* .replace(/\b(var|let|const)\b/g, 'var')
DeclKeyword(w) == IF w \in {"var", "let", "const"} THEN "var" ELSE w

\* .replace(/\b(if|for|while|switch|return|function|class|import|export)\b/g, '$1')
KeepKeyword(w) ==
  IF w \in {"if", "for", "while", "switch", "return", "function", "class",
            "import", "export"}
  THEN w ELSE w

\* the keywords array of the identifier callback
keywords == {"if", "for", "while", "switch", "return", "function", "class",
             "import", "export", "var"}

\* the callback of .replace(/\b[a-zA-Z_][a-zA-Z0-9_]*\b/g, ...); a run that
\* starts with a digit has no \b before its first letter and is not matched
Bucket(w) ==
  IF Head(w) \notin IdentStart THEN w
  ELSE IF w \in keywords THEN w
  ELSE IF StartsWith(w, "get") \/ StartsWith(w, "set") THEN "accessor"
  ELSE IF StartsWith(w, "on") \/ EndsWith(w, "Handler") \/ EndsWith(w, "Listener")
       THEN "eventHandler"
  ELSE IF StartsWith(w, "is") \/ StartsWith(w, "has") \/ StartsWith(w, "should")
       THEN "booleanVar"
  ELSE "identifier"

\* the replacement of the word w in each of the three word passes
WordReplacement(pass, w) ==
  CASE pass = "declaration" -> DeclKeyword(w)
    [] pass = "keyword" -> KeepKeyword(w)
    [] pass = "identifier" -> Bucket(w)

\* The three word passes match between two \b boundaries, so each match is a
\* maximal run of \w characters; every such run w is replaced.
RECURSIVE MapWords(_, _)
MapWords(s, pass) ==
  LET p == SkipUntil(s, 1, WordChar)
      e == SkipWhile(s, p, WordChar)
  IN IF p > Len(s) THEN s
     ELSE SubSeq(s, 1, p - 1) \o WordReplacement(pass, SubSeq(s, p, e - 1))
          \o MapWords(From(s, e), pass)

normalizeContent(content) ==
  Trim(
   MapWords(
    MapWords(
     MapWords(
      NormalizeNumbers(
       MaskFirstString(
        StripBlockComments(
         StripLineComments(
          CollapseWhitespace(content))))),
      "declaration"),
     "keyword"),
    "identifier"))

(***************************************************************************)
(* compareBlocks                                                           *)
(***************************************************************************)

RECURSIVE GCD(_, _)
GCD(a, b) == IF b = 0 THEN a ELSE GCD(b, a % b)

\* the rational n/d in lowest terms (d > 0)
Rat(n, d) == LET g == GCD(n, d) IN [num |-> n \div g, den |-> d \div g]

RatGeq(x, y) == x.num * y.den >= y.num * x.den

RatAdd(x, y) == Rat(x.num * y.den + y.num * x.den, x.den * y.den)

\* content.split(/\s+/).filter(token => token.length > 0), as a set
RECURSIVE TokenSet(_)
TokenSet(s) ==
  LET a == SkipWhile(s, 1, WhiteSpace)
      e == SkipUntil(s, a, WhiteSpace)
  IN IF a > Len(s) THEN {}
     ELSE {SubSeq(s, a, e - 1)} \cup TokenSet(From(s, e))

\* Overlap with the second half of the test forgotten
Overlap_oneSided(block1, block2) ==
  block1.startLine <= block2.startLine /\ block1.endLine >= block2.startLine

\* the same-file test of compareBlocks on the line ranges
Overlap(block1, block2) ==
  \/ block1.startLine <= block2.startLine /\ block1.endLine >= block2.startLine
  \/ block2.startLine <= block1.startLine /\ block2.endLine >= block1.startLine

\* the result of 0 / 0
NaN == [num |-> 0, den |-> 0]

\* intersection.size / union.size
Jaccard(set1, set2) ==
  LET intersection == set1 \cap set2
      union == set1 \cup set2
  IN IF Cardinality(union) = 0 THEN NaN
     ELSE Rat(Cardinality(intersection), Cardinality(union))

\* compareBlocks without the shortcut for equal normal forms
compareBlocks_noShortcut(block1, block2) ==
  IF block1.file = block2.file /\ Overlap(block1, block2) THEN Rat(0, 1)
  ELSE Jaccard(TokenSet(normalizeContent(block1.content)),
               TokenSet(normalizeContent(block2.content)))

compareBlocks(block1, block2) ==
  IF block1.file = block2.file /\ Overlap(block1, block2) THEN Rat(0, 1)
  ELSE LET content1 == normalizeContent(block1.content)
           content2 == normalizeContent(block2.content)
       IN IF content1 = content2 THEN Rat(1, 1)
          ELSE Jaccard(TokenSet(content1), TokenSet(content2))

(***************************************************************************)
(* findCodeBlocks                                                          *)
(***************************************************************************)

\* the default of the minBlockSize parameter
DefaultMinBlockSize == 5

\* [a-zA-Z0-9_$], the characters of a name in the function patterns
NameChar == WordChar \cup {"$"}

\* line.match(/^\s*[a-zA-Z0-9_$]+\s*\([^)]*\)\s*{/)
MatchesNamedFunction(line) ==
  LET a == SkipWhile(line, 1, WhiteSpace)
      b == SkipWhile(line, a, NameChar)
      c == SkipWhile(line, b, WhiteSpace)
      d == SkipUntil(line, c + 1, {")"})
      e == SkipWhile(line, d + 1, WhiteSpace)
  IN b > a /\ Ch(line, c) = "(" /\ Ch(line, d) = ")" /\ Ch(line, e) = "{"

\* line.match(/^\s*\([^)]*\)\s*=>\s*{/)
MatchesArrowFunction(line) ==
  LET a == SkipWhile(line, 1, WhiteSpace)
      d == SkipUntil(line, a + 1, {")"})
      e == SkipWhile(line, d + 1, WhiteSpace)
      f == SkipWhile(line, e + 2, WhiteSpace)
  IN Ch(line, a) = "(" /\ Ch(line, d) = ")" /\ At(line, e, "=>") /\ Ch(line, f) = "{"

\* line.match(/^\s*[a-zA-Z0-9_$]+\s*:\s*function/)
MatchesObjectMethod(line) ==
  LET a == SkipWhile(line, 1, WhiteSpace)
      b == SkipWhile(line, a, NameChar)
      c == SkipWhile(line, b, WhiteSpace)
      d == SkipWhile(line, c + 1, WhiteSpace)
  IN b > a /\ Ch(line, c) = ":" /\ At(line, d, "function")

\* the test for a function declaration on a trimmed line
IsFunctionStart(line) ==
  \/ Includes(line, "function ")
  \/ MatchesNamedFunction(line)
  \/ MatchesArrowFunction(line)
  \/ MatchesObjectMethod(line)

\* line === '' || line.startsWith('//') || line.startsWith('#') || line.startsWith('/*')
IsBlankOrComment(line) ==
  line = "" \/ StartsWith(line, "//") \/ StartsWith(line, "#") \/ StartsWith(line, "/*")

\* opening braces minus closing braces of a line
BraceDelta(line) == CountChar(line, "{") - CountChar(line, "}")

\* LongEnough with the limit one too low
LongEnough_offByOne(blockLines, minSize) == Len(blockLines) >= minSize - 1

\* currentBlock.length >= minBlockSize, the test both scans apply before a push
LongEnough(blockLines, minSize) == Len(blockLines) >= minSize

\* state of the function scan before the first line
FunctionScanStart ==
  [inFunction |-> FALSE, functionStart |-> 0, braceCount |-> 0,
   currentBlock |-> <<>>, blocks |-> <<>>]

\* FunctionScanStep taking a function start inside an open function as the
\* start of a new block
FunctionScanStep_restart(st, filePath, rawLine, idx, minSize) ==
  LET line == Trim(rawLine)
  IN IF IsBlankOrComment(line) THEN st
     ELSE IF IsFunctionStart(line)
     THEN [st EXCEPT !.inFunction = TRUE, !.functionStart = idx,
                     !.currentBlock = <<line>>, !.braceCount = BraceDelta(line)]
     ELSE IF st.inFunction
     THEN LET block == Append(st.currentBlock, line)
              count == st.braceCount + BraceDelta(line)
          IN IF count = 0
             THEN [st EXCEPT !.inFunction = FALSE, !.braceCount = 0,
                             !.currentBlock = <<>>,
                             !.blocks = IF LongEnough(block, minSize)
                                        THEN Append(@, [file |-> filePath,
                                                        startLine |-> st.functionStart + 1,
                                                        endLine |-> idx + 1,
                                                        content |-> Join(block, "\n")])
                                        ELSE @]
             ELSE [st EXCEPT !.currentBlock = block, !.braceCount = count]
     ELSE st

\* one iteration of the first loop, on the line of index idx (0-based)
FunctionScanStep(st, filePath, rawLine, idx, minSize) ==
  LET line == Trim(rawLine)
  IN IF IsBlankOrComment(line) THEN st
     ELSE IF ~st.inFunction /\ IsFunctionStart(line)
     THEN [st EXCEPT !.inFunction = TRUE, !.functionStart = idx,
                     !.currentBlock = <<line>>, !.braceCount = BraceDelta(line)]
     ELSE IF st.inFunction
     THEN LET block == Append(st.currentBlock, line)
              count == st.braceCount + BraceDelta(line)
          IN IF count = 0
             THEN [st EXCEPT !.inFunction = FALSE, !.braceCount = 0,
                             !.currentBlock = <<>>,
                             !.blocks = IF LongEnough(block, minSize)
                                        THEN Append(@, [file |-> filePath,
                                                        startLine |-> st.functionStart + 1,
                                                        endLine |-> idx + 1,
                                                        content |-> Join(block, "\n")])
                                        ELSE @]
             ELSE [st EXCEPT !.currentBlock = block, !.braceCount = count]
     ELSE st

\* the first loop over the lines of index idx .. lines.length - 1
RECURSIVE FunctionScan(_, _, _, _, _)
FunctionScan(st, filePath, lines, idx, minSize) ==
  IF idx >= Len(lines) THEN st
  ELSE FunctionScan(FunctionScanStep(st, filePath, lines[idx + 1], idx, minSize),
                    filePath, lines, idx + 1, minSize)

\* state of the indentation scan before the first line
IndentScanStart ==
  [currentIndentBlock |-> <<>>, currentIndentLevel |-> -1, indentBlockStart |-> 0,
   blocks |-> <<>>]

\* IndentScanStep comparing with the indentation of the line before: a deeper
\* line raises currentIndentLevel
IndentScanStep_previousLine(st, filePath, line, idx, minSize) ==
  LET indentLevel == SkipWhile(line, 1, WhiteSpace) - 1
  IN IF Trim(line) = "" THEN st
     ELSE IF st.currentIndentLevel = -1
     THEN [st EXCEPT !.currentIndentLevel = indentLevel, !.indentBlockStart = idx,
                     !.currentIndentBlock = <<Trim(line)>>]
     ELSE IF indentLevel >= st.currentIndentLevel
     THEN [st EXCEPT !.currentIndentLevel = indentLevel,
                     !.currentIndentBlock = Append(@, Trim(line))]
     ELSE [st EXCEPT !.currentIndentLevel = indentLevel, !.indentBlockStart = idx,
                     !.currentIndentBlock = <<Trim(line)>>,
                     !.blocks = IF LongEnough(st.currentIndentBlock, minSize)
                                THEN Append(@, [file |-> filePath,
                                                startLine |-> st.indentBlockStart + 1,
                                                endLine |-> idx,
                                                content |-> Join(st.currentIndentBlock, "\n")])
                                ELSE @]

\* one iteration of the second loop, on the line of index idx (0-based)
IndentScanStep(st, filePath, line, idx, minSize) ==
  LET indentLevel == SkipWhile(line, 1, WhiteSpace) - 1
  IN IF Trim(line) = "" THEN st
     ELSE IF st.currentIndentLevel = -1
     THEN [st EXCEPT !.currentIndentLevel = indentLevel, !.indentBlockStart = idx,
                     !.currentIndentBlock = <<Trim(line)>>]
     ELSE IF indentLevel > st.currentIndentLevel
     THEN [st EXCEPT !.currentIndentBlock = Append(@, Trim(line))]
     ELSE IF indentLevel < st.currentIndentLevel
     THEN [st EXCEPT !.currentIndentLevel = indentLevel, !.indentBlockStart = idx,
                     !.currentIndentBlock = <<Trim(line)>>,
                     !.blocks = IF LongEnough(st.currentIndentBlock, minSize)
                                THEN Append(@, [file |-> filePath,
                                                startLine |-> st.indentBlockStart + 1,
                                                endLine |-> idx,
                                                content |-> Join(st.currentIndentBlock, "\n")])
                                ELSE @]
     ELSE [st EXCEPT !.currentIndentBlock = Append(@, Trim(line))]

\* the second loop over the lines of index idx .. lines.length - 1
RECURSIVE IndentScan(_, _, _, _, _)
IndentScan(st, filePath, lines, idx, minSize) ==
  IF idx >= Len(lines) THEN st
  ELSE IndentScan(IndentScanStep(st, filePath, lines[idx + 1], idx, minSize),
                  filePath, lines, idx + 1, minSize)

\* the push of the last indentation block after the second loop
IndentScanEnd(st, filePath, lines, minSize) ==
  IF LongEnough(st.currentIndentBlock, minSize)
  THEN Append(st.blocks, [file |-> filePath,
                          startLine |-> st.indentBlockStart + 1,
                          endLine |-> Len(lines),
                          content |-> Join(st.currentIndentBlock, "\n")])
  ELSE st.blocks

findCodeBlocks(filePath, content, minSize) ==
  LET lines == Split(content, "\n")
  IN FunctionScan(FunctionScanStart, filePath, lines, 0, minSize).blocks
     \o IndentScanEnd(IndentScan(IndentScanStart, filePath, lines, 0, minSize),
                      filePath, lines, minSize)

(***************************************************************************)
(* State                                                                   *)
(***************************************************************************)

VARIABLES
  pc,                   \* position in the operation being run
  allBlocks,            \* findDuplications: the blocks, in extraction order
  similarityThreshold,  \* findDuplications: the threshold
  i,                    \* findDuplications: index of the anchor
  j,                    \* findDuplications: index of the candidate
  instances,            \* findDuplications: blocks of the cluster being built
  similarBlockIndices,  \* findDuplications: their indices
  processedBlocks,      \* findDuplications: indices claimed by a cluster
  duplications,         \* findDuplications: clusters in order of discovery
  result,               \* the value returned by the operation
  block1,               \* compareBlocks: first argument
  block2,               \* compareBlocks: second argument
  sourceFiles,          \* the files to analyse, each a path with its content
  fileIndex,            \* detectDuplicateCode: index of the file read next
  minBlockSize,         \* findCodeBlocks: minimum block size
  rawContent,           \* normalizeContent: the content given
  caller,               \* the operation findDuplications returns to
  invocation,           \* detectDuplicateCode: the arguments of the call
  disk,                 \* the file tree of the project
  faults,               \* the file system calls the tree refuses
  fsOps,                \* the file system calls made so far, in order
  reportContent,        \* detectDuplicateCode: the report text, line by line
  output,               \* the value detectDuplicateCode returns
  report,               \* generateOptimizationReport: its text, line by line
  runs,                 \* number of the current call of detectDuplicateCode
  firstOutput,          \* the value the first call returned
  registry,             \* TaskRegistry: this.tasks, the tasks of each category
  call,                 \* the method of TaskRunner or OptimizationManager called
  tasks,                \* the tasks the loop of that method goes through
  taskIndex,            \* index of the task the loop runs next
  results,              \* TaskRunner: this.results
  managerResults,       \* OptimizationManager: this.results
  calls                 \* the tasks handed to runTask or registerTask so far

dupVars == <<allBlocks, similarityThreshold, i, j, instances,
             similarBlockIndices, processedBlocks, duplications>>

cmpVars == <<block1, block2>>

fileVars == <<sourceFiles, fileIndex, minBlockSize>>

runVars == <<rawContent, caller, invocation, disk, faults, fsOps, reportContent,
             output, report, runs, firstOutput>>

taskVars == <<registry, call, tasks, taskIndex, results, managerResults, calls>>

vars == <<pc, dupVars, result, cmpVars, fileVars, runVars, taskVars>>

\* a CodeBlock
Block(file, startLine, endLine, content) ==
  [file |-> file, startLine |-> startLine, endLine |-> endLine, content |-> content]

\* value of a variable its operation has not assigned yet
None == <<>>

\* the variables of the task registry, runner and manager while none is used
IdleTasks ==
  /\ registry = None
  /\ call = None
  /\ tasks = <<>>
  /\ taskIndex = 0
  /\ results = None
  /\ managerResults = None
  /\ calls = <<>>

\* the variables of detectDuplicateCode and normalizeContent while neither runs
IdleRun ==
  /\ rawContent = ""
  /\ caller = "none"
  /\ invocation = None
  /\ disk = None
  /\ faults = {}
  /\ fsOps = <<>>
  /\ reportContent = <<>>
  /\ output = None
  /\ report = <<>>
  /\ runs = 0
  /\ firstOutput = None

(***************************************************************************)
(* findDuplications, one action per loop step                              *)
(***************************************************************************)

\* block.endLine - block.startLine + 1
LineCount(block) == block.endLine - block.startLine + 1

Abs(n) == IF n < 0 THEN -n ELSE n

Max(a, b) == IF a >= b THEN a ELSE b

\* TooDifferentInSize with the factor 0.2 forgotten
TooDifferentInSize_noFactor(b1, b2) ==
  Abs(LineCount(b1) - LineCount(b2)) > Max(LineCount(b1), LineCount(b2))

\* lineDifference > 0.2 * Math.max(block1Lines, block2Lines)
TooDifferentInSize(b1, b2) ==
  LET block1Lines == LineCount(b1)
      block2Lines == LineCount(b2)
      lineDifference == Abs(block1Lines - block2Lines)
  IN 5 * lineDifference > Max(block1Lines, block2Lines)

\* MeetsThreshold with a strict comparison
MeetsThreshold_strict(similarity, threshold) ==
  similarity.num * threshold.den > threshold.num * similarity.den

\* similarity >= similarityThreshold
MeetsThreshold(similarity, threshold) == RatGeq(similarity, threshold)

\* IsProcessed with the claimed set never consulted
IsProcessed_never(processed, index) == FALSE

\* processedBlocks.has(index)
IsProcessed(processed, index) == index \in processed

RECURSIVE SumSimilarity(_, _)
SumSimilarity(anchor, blocks) ==
  IF blocks = <<>> THEN Rat(0, 1)
  ELSE RatAdd(compareBlocks(anchor, Head(blocks)), SumSimilarity(anchor, Tail(blocks)))

\* AvgSimilarity dividing by the number of instances, anchor included
AvgSimilarity_byAll(insts) ==
  LET sum == SumSimilarity(insts[1], Tail(insts))
  IN Rat(sum.num, sum.den * Len(insts))

\* instances.slice(1).reduce((sum, block) => sum + compareBlocks(block1, block), 0)
\*   / (instances.length - 1)
AvgSimilarity(insts) ==
  LET sum == SumSimilarity(insts[1], Tail(insts))
  IN Rat(sum.num, sum.den * (Len(insts) - 1))

\* CompareDuplications ordering the instance counts ascending
CompareDuplications_ascending(a, b) ==
  LET instanceDiff == Len(a.instances) - Len(b.instances)
  IN IF instanceDiff # 0 THEN instanceDiff
     ELSE b.similarity.num * a.similarity.den - a.similarity.num * b.similarity.den

\* the comparator of the final sort: negative when a goes before b
CompareDuplications(a, b) ==
  LET instanceDiff == Len(b.instances) - Len(a.instances)
  IN IF instanceDiff # 0 THEN instanceDiff
     ELSE b.similarity.num * a.similarity.den - a.similarity.num * b.similarity.den

\* Array.prototype.sort is stable: d goes after every element it does not precede
RECURSIVE InsertSorted(_, _)
InsertSorted(sorted, d) ==
  IF sorted = <<>> THEN <<d>>
  ELSE IF CompareDuplications(d, Head(sorted)) < 0 THEN <<d>> \o sorted
  ELSE <<Head(sorted)>> \o InsertSorted(Tail(sorted), d)

RECURSIVE SortDuplications(_)
SortDuplications(ds) ==
  IF ds = <<>> THEN <<>>
  ELSE InsertSorted(SortDuplications(SubSeq(ds, 1, Len(ds) - 1)), ds[Len(ds)])

\* if (!allBlocks || !Array.isArray(allBlocks) || allBlocks.length === 0) return []
EmptyInput ==
  /\ pc = "findDuplications"
  /\ Len(allBlocks) = 0
  /\ result' = <<>>
  /\ pc' = "done"
  /\ UNCHANGED <<taskVars, dupVars, cmpVars, fileVars, runVars>>

\* entry of the outer loop
EnterLoop ==
  /\ pc = "findDuplications"
  /\ Len(allBlocks) > 0
  /\ i' = 1
  /\ pc' = "outer"
  /\ UNCHANGED <<taskVars, allBlocks, similarityThreshold, j, instances, similarBlockIndices,
                 processedBlocks, duplications, result, cmpVars, fileVars, runVars>>

\* if (processedBlocks.has(i)) continue
SkipAnchor ==
  /\ pc = "outer"
  /\ i <= Len(allBlocks)
  /\ IsProcessed(processedBlocks, i)
  /\ i' = i + 1
  /\ UNCHANGED <<taskVars, pc, allBlocks, similarityThreshold, j, instances,
                 similarBlockIndices, processedBlocks, duplications, result, cmpVars, fileVars, runVars>>

\* const instances = [block1]; const similarBlockIndices = [i]
StartAnchor ==
  /\ pc = "outer"
  /\ i <= Len(allBlocks)
  /\ ~IsProcessed(processedBlocks, i)
  /\ instances' = <<allBlocks[i]>>
  /\ similarBlockIndices' = <<i>>
  /\ j' = i + 1
  /\ pc' = "inner"
  /\ UNCHANGED <<taskVars, allBlocks, similarityThreshold, i, processedBlocks, duplications,
                 result, cmpVars, fileVars, runVars>>

\* if (processedBlocks.has(j)) continue
SkipProcessedCandidate ==
  /\ pc = "inner"
  /\ j <= Len(allBlocks)
  /\ IsProcessed(processedBlocks, j)
  /\ j' = j + 1
  /\ UNCHANGED <<taskVars, pc, allBlocks, similarityThreshold, i, instances,
                 similarBlockIndices, processedBlocks, duplications, result, cmpVars, fileVars, runVars>>

\* the size pre-filter: continue
SkipSizeCandidate ==
  /\ pc = "inner"
  /\ j <= Len(allBlocks)
  /\ ~IsProcessed(processedBlocks, j)
  /\ TooDifferentInSize(allBlocks[i], allBlocks[j])
  /\ j' = j + 1
  /\ UNCHANGED <<taskVars, pc, allBlocks, similarityThreshold, i, instances,
                 similarBlockIndices, processedBlocks, duplications, result, cmpVars, fileVars, runVars>>

\* similarity >= similarityThreshold: instances.push(block2); similarBlockIndices.push(j)
AddCandidate ==
  /\ pc = "inner"
  /\ j <= Len(allBlocks)
  /\ ~IsProcessed(processedBlocks, j)
  /\ ~TooDifferentInSize(allBlocks[i], allBlocks[j])
  /\ MeetsThreshold(compareBlocks(allBlocks[i], allBlocks[j]), similarityThreshold)
  /\ instances' = Append(instances, allBlocks[j])
  /\ similarBlockIndices' = Append(similarBlockIndices, j)
  /\ j' = j + 1
  /\ UNCHANGED <<taskVars, pc, allBlocks, similarityThreshold, i, processedBlocks,
                 duplications, result, cmpVars, fileVars, runVars>>

\* similarity below the threshold: next candidate
RejectCandidate ==
  /\ pc = "inner"
  /\ j <= Len(allBlocks)
  /\ ~IsProcessed(processedBlocks, j)
  /\ ~TooDifferentInSize(allBlocks[i], allBlocks[j])
  /\ ~MeetsThreshold(compareBlocks(allBlocks[i], allBlocks[j]), similarityThreshold)
  /\ j' = j + 1
  /\ UNCHANGED <<taskVars, pc, allBlocks, similarityThreshold, i, instances,
                 similarBlockIndices, processedBlocks, duplications, result, cmpVars, fileVars, runVars>>

\* if (instances.length > 1): mark the group as processed and push the cluster.
\* A cluster keeps the indices of its instances next to the block records:
\* in the source the instances are references to the objects of allBlocks.
EmitCluster ==
  /\ pc = "inner"
  /\ j > Len(allBlocks)
  /\ Len(instances) > 1
  /\ processedBlocks' = processedBlocks \cup {similarBlockIndices[k] : k \in 1..Len(similarBlockIndices)}
  /\ duplications' = Append(duplications,
                            [similarity |-> AvgSimilarity(instances),
                             instances |-> instances,
                             indices |-> similarBlockIndices])
  /\ i' = i + 1
  /\ pc' = "outer"
  /\ UNCHANGED <<taskVars, allBlocks, similarityThreshold, j, instances, similarBlockIndices,
                 result, cmpVars, fileVars, runVars>>

\* the anchor found no match: nothing is marked, nothing is pushed
NoCluster ==
  /\ pc = "inner"
  /\ j > Len(allBlocks)
  /\ Len(instances) <= 1
  /\ i' = i + 1
  /\ pc' = "outer"
  /\ UNCHANGED <<taskVars, allBlocks, similarityThreshold, j, instances, similarBlockIndices,
                 processedBlocks, duplications, result, cmpVars, fileVars, runVars>>

\* return duplications.sort(...)
SortAndReturn ==
  /\ pc = "outer"
  /\ i > Len(allBlocks)
  /\ result' = SortDuplications(duplications)
  /\ pc' = "done"
  /\ UNCHANGED <<taskVars, dupVars, cmpVars, fileVars, runVars>>

NextDuplications ==
  \/ EmptyInput
  \/ EnterLoop
  \/ SkipAnchor
  \/ StartAnchor
  \/ SkipProcessedCandidate
  \/ SkipSizeCandidate
  \/ AddCandidate
  \/ RejectCandidate
  \/ EmitCluster
  \/ NoCluster
  \/ SortAndReturn

(***************************************************************************)
(* Inputs of findDuplications                                              *)
(***************************************************************************)

\* longest list of blocks given to findDuplications
MaxBlocks == 5

\* blocks to draw from: an anchor, an exact duplicate in another file, a
\* near duplicate overlapping that one, a 50-line block with the anchor's
\* text, and two blocks of another family
BlockLibrary == {
  Block("a.js", 1, 5, "if x = 1 ;"),
  Block("b.js", 1, 5, "if y = 2 ;"),
  Block("b.js", 3, 8, "if x = 1"),
  Block("a.js", 10, 59, "if x = 1 ;"),
  Block("b.js", 20, 24, "for x"),
  Block("a.js", 60, 64, "for y")
}

\* the lists of at most n distinct blocks of the library
RECURSIVE BlockLists(_)
BlockLists(n) ==
  IF n = 0 THEN {<<>>}
  ELSE LET shorter == BlockLists(n - 1)
       IN shorter \cup
          {Append(l, b) : <<l, b>> \in
             {p \in shorter \X BlockLibrary :
                /\ Len(p[1]) = n - 1
                /\ \A k \in 1..Len(p[1]) : p[1][k] # p[2]}}

\* the default of the similarityThreshold parameter
DefaultThreshold == Rat(4, 5)

Thresholds == {DefaultThreshold, Rat(9, 10)}

InitDuplications ==
  /\ IdleTasks
  /\ pc = "findDuplications"
  /\ allBlocks \in BlockLists(MaxBlocks)
  /\ similarityThreshold \in Thresholds
  /\ i = 0
  /\ j = 0
  /\ instances = <<>>
  /\ similarBlockIndices = <<>>
  /\ processedBlocks = {}
  /\ duplications = <<>>
  /\ result = None
  /\ block1 = None
  /\ block2 = None
  /\ sourceFiles = <<>>
  /\ fileIndex = 0
  /\ minBlockSize = DefaultMinBlockSize
  /\ IdleRun

SpecDuplications == InitDuplications /\ [][NextDuplications]_vars

(***************************************************************************)
(* compareBlocks as an operation on a pair of blocks                       *)
(***************************************************************************)

\* largest first line of a block given to compareBlocks
MaxStartLine == 3

\* largest line count of a block given to compareBlocks
MaxBlockLines == 2

\* texts to draw from: two texts with one normal form, a near duplicate, an
\* unrelated text, two texts whose normal form is empty, a text with names
\* of every bucket and two string literals
ContentLibrary == {
  "if x = 1 ;",
  "if y = 2 ;",
  "if x = 1",
  "for x",
  "",
  " // note",
  "let getA = onB + isC + 'a b' + \"c d\""
}

CompareInputs ==
  {Block(f, s, s + n - 1, c) :
     f \in {"a.js", "b.js"}, s \in 1..MaxStartLine, n \in 1..MaxBlockLines,
     c \in ContentLibrary}

InitCompare ==
  /\ IdleTasks
  /\ pc = "compareBlocks"
  /\ block1 \in CompareInputs
  /\ block2 \in CompareInputs
  /\ result = None
  /\ allBlocks = <<>>
  /\ similarityThreshold = DefaultThreshold
  /\ i = 0
  /\ j = 0
  /\ instances = <<>>
  /\ similarBlockIndices = <<>>
  /\ processedBlocks = {}
  /\ duplications = <<>>
  /\ sourceFiles = <<>>
  /\ fileIndex = 0
  /\ minBlockSize = DefaultMinBlockSize
  /\ IdleRun

Compare ==
  /\ pc = "compareBlocks"
  /\ result' = compareBlocks(block1, block2)
  /\ pc' = "done"
  /\ UNCHANGED <<taskVars, dupVars, cmpVars, fileVars, runVars>>

NextCompare == Compare

SpecCompare == InitCompare /\ [][NextCompare]_vars

(***************************************************************************)
(* findCodeBlocks as an operation on one file                              *)
(***************************************************************************)

\* largest number of lines of a file given to findCodeBlocks
MaxFileLines == 4

\* largest minBlockSize given to findCodeBlocks
MaxMinBlockSize == 3

\* lines to draw from: a function start, a body line, a closing brace, a
\* blank line, a comment line and a deeper body line
LineLibrary == {"function f() {", "  x;", "}", "", "  // c", "    y;"}

\* the texts of at most n lines of the library, joined by line feeds
RECURSIVE FileTexts(_)
FileTexts(n) ==
  IF n = 1 THEN LineLibrary
  ELSE LET shorter == FileTexts(n - 1)
       IN shorter \cup {t \o "\n" \o l : t \in shorter, l \in LineLibrary}

InitExtract ==
  /\ IdleTasks
  /\ pc = "findCodeBlocks"
  /\ sourceFiles \in {<<[path |-> "a.js", content |-> t]>> : t \in FileTexts(MaxFileLines)}
  /\ minBlockSize \in 1..MaxMinBlockSize
  /\ fileIndex = 1
  /\ result = None
  /\ allBlocks = <<>>
  /\ similarityThreshold = DefaultThreshold
  /\ i = 0
  /\ j = 0
  /\ instances = <<>>
  /\ similarBlockIndices = <<>>
  /\ processedBlocks = {}
  /\ duplications = <<>>
  /\ block1 = None
  /\ block2 = None
  /\ IdleRun

Extract ==
  /\ pc = "findCodeBlocks"
  /\ result' = findCodeBlocks(sourceFiles[fileIndex].path, sourceFiles[fileIndex].content,
                              minBlockSize)
  /\ pc' = "done"
  /\ UNCHANGED <<taskVars, dupVars, cmpVars, fileVars, runVars>>

NextExtract == Extract

SpecExtract == InitExtract /\ [][NextExtract]_vars

(***************************************************************************)
(* normalizeContent applied to a text, then to its own result              *)
(***************************************************************************)

\* largest number of pieces of a text given to normalizeContent
MaxPieces == 2

\* pieces to draw from: a name of each bucket, a plain name, a string
\* literal, a number, a kept keyword, a declaration keyword and a comment of
\* each kind
PieceLibrary == {"getA", "onB", "isC", "x", "'s t'", "12", "if", "let",
                 "/* c */", "// c"}

\* the texts of at most n pieces of the library, one piece per line
RECURSIVE Texts(_)
Texts(n) ==
  IF n = 1 THEN PieceLibrary
  ELSE LET shorter == Texts(n - 1)
       IN shorter \cup {t \o "\n" \o p : t \in shorter, p \in PieceLibrary}

InitNormalize ==
  /\ IdleTasks
  /\ pc = "normalizeContent"
  /\ rawContent \in Texts(MaxPieces)
  /\ result = <<>>
  /\ caller = "none"
  /\ invocation = None
  /\ disk = None
  /\ faults = {}
  /\ fsOps = <<>>
  /\ reportContent = <<>>
  /\ output = None
  /\ report = <<>>
  /\ runs = 0
  /\ firstOutput = None
  /\ allBlocks = <<>>
  /\ similarityThreshold = DefaultThreshold
  /\ i = 0
  /\ j = 0
  /\ instances = <<>>
  /\ similarBlockIndices = <<>>
  /\ processedBlocks = {}
  /\ duplications = <<>>
  /\ block1 = None
  /\ block2 = None
  /\ sourceFiles = <<>>
  /\ fileIndex = 0
  /\ minBlockSize = DefaultMinBlockSize

\* normalizeContent(rawContent)
Normalize ==
  /\ pc = "normalizeContent"
  /\ result = <<>>
  /\ result' = <<normalizeContent(rawContent)>>
  /\ UNCHANGED <<taskVars, pc, dupVars, cmpVars, fileVars, runVars>>

\* normalizeContent applied to the normal form it returned
NormalizeAgain ==
  /\ pc = "normalizeContent"
  /\ Len(result) = 1
  /\ result' = Append(result, normalizeContent(result[1]))
  /\ pc' = "done"
  /\ UNCHANGED <<taskVars, dupVars, cmpVars, fileVars, runVars>>

NextNormalize == Normalize \/ NormalizeAgain

SpecNormalize == InitNormalize /\ [][NextNormalize]_vars

(***************************************************************************)
(* detectDuplicateCode: read the files, extract their blocks, cluster them *)
(***************************************************************************)

\* largest number of source files of a project
MaxFiles == 2

\* a file holding one function of six lines
FunctionText(name, param, literal, ending) ==
  "function " \o name \o "(" \o param \o ") {\n"
  \o "  if (!" \o param \o ") {\n"
  \o "    log('" \o literal \o "');\n"
  \o "  }\n"
  \o "  return " \o param \o ";\n"
  \o "}" \o ending

\* files that each hold one function and differ only in identifiers of one
\* bucket and in the text of the first string literal
ScenarioFiles == {
  [path |-> "order.js", content |-> FunctionText("doOrder", "order", "No order", "\n")],
  [path |-> "invoice.js", content |-> FunctionText("doInvoice", "invoice", "Invoice needed", "\n")],
  [path |-> "bill.js", content |-> FunctionText("doBill", "bill", "Bill", "")]
}

\* a function of three lines, and a file of other statements
OtherFiles == {
  [path |-> "short.js", content |-> "function s() {\n  x;\n}\n"],
  [path |-> "loop.js",
   content |-> "while (a < 9)\n  b = a + 1;\n  c = b * 2;\n  d = c - 3;\n  e = d / 4;\n  a = e;\n"],
  [path |-> "long.js",
   content |-> "function t(a) {\n  b;\n  c;\n  d;\n  e;\n  f;\n  g;\n  h;\n}\n"]
}

FileLibrary == ScenarioFiles \cup OtherFiles

\* the lists of at most n distinct files of the library
RECURSIVE FileLists(_)
FileLists(n) ==
  IF n = 1 THEN {<<f>> : f \in FileLibrary}
  ELSE LET shorter == FileLists(n - 1)
       IN shorter \cup
          {Append(l, f) : <<l, f>> \in
             {p \in shorter \X FileLibrary :
                /\ Len(p[1]) = n - 1
                /\ \A k \in 1..Len(p[1]) : p[1][k] # p[2]}}

\* options.minBlockSize || 5 ; 0 stands for an option that is not given
OptionOrDefault(option, default) == IF option = 0 THEN default ELSE option

\* options.similarityThreshold || 0.8
ThresholdOrDefault(option) == IF option.num = 0 THEN DefaultThreshold ELSE option

(***************************************************************************)
(* The arguments of detectDuplicateCode and the project tree               *)
(***************************************************************************)

\* IsString accepting every value
IsString_always(v) == TRUE

\* typeof v === 'string'
IsString(v) == v.type = "string"

\* the project paths of a call, each with the result of typeof: the
\* directory itself, and two values that are not strings
ProjectPaths ==
  {[type |-> "string", value |-> "."], [type |-> "undefined", value |-> ""],
   [type |-> "number", value |-> "42"]}

\* the project types of a call: none given, one without source files in the
\* tree, one without extensions
ProjectTypeLists == {<<>>, <<"python">>, <<"rust">>}

\* the calls detectDuplicateCode(projectPath, projectTypes), where options
\* takes its default {}; an option of 0 is an option that is not given
PositionalInvocations ==
  {[projectPathOrOptions |-> p, projectTypes |-> t,
    options |-> [minBlockSize |-> 0, similarityThreshold |-> Rat(0, 1),
                 dryRun |-> FALSE]] :
     p \in ProjectPaths, t \in ProjectTypeLists}

\* the calls detectDuplicateCode({projectPath, projectTypes, minBlockSize: 3}),
\* where the other parameters take their defaults [] and {}; a property that
\* is left out reads as 0 or FALSE
ObjectInvocations ==
  {[projectPathOrOptions |->
      [type |-> "object",
       value |-> [projectPath |-> p, projectTypes |-> t, minBlockSize |-> 3,
                  similarityThreshold |-> Rat(0, 1), dryRun |-> FALSE]],
    projectTypes |-> <<>>,
    options |-> [minBlockSize |-> 0, similarityThreshold |-> Rat(0, 1),
                 dryRun |-> FALSE]] :
     p \in ProjectPaths, t \in ProjectTypeLists}

\* typeof projectPathOrOptions === 'object' && projectPathOrOptions !== null
IsOptionsObject(inv) == inv.projectPathOrOptions.type = "object"

\* the local projectPath after the parameters were unpacked
ProjectPathOf(inv) ==
  IF IsOptionsObject(inv) THEN inv.projectPathOrOptions.value.projectPath
  ELSE inv.projectPathOrOptions

\* the local projectTypes after the parameters were unpacked
ProjectTypesOf(inv) ==
  IF IsOptionsObject(inv) THEN inv.projectPathOrOptions.value.projectTypes
  ELSE inv.projectTypes

\* the local options after the parameters were unpacked
OptionsOf(inv) ==
  IF IsOptionsObject(inv)
  THEN [minBlockSize |->
          OptionOrDefault(inv.projectPathOrOptions.value.minBlockSize, DefaultMinBlockSize),
        similarityThreshold |->
          ThresholdOrDefault(inv.projectPathOrOptions.value.similarityThreshold),
        dryRun |-> inv.projectPathOrOptions.value.dryRun \/ FALSE]
  ELSE inv.options

\* projectTypes.includes(type)
IncludesType(projectTypes, type) ==
  \E k \in 1..Len(projectTypes) : projectTypes[k] = type

getFileExtensions(projectTypes) ==
  (IF \/ Len(projectTypes) = 0
      \/ IncludesType(projectTypes, "generic")
      \/ IncludesType(projectTypes, "unknown")
   THEN <<".js", ".jsx">> ELSE <<>>)
  \o (IF \/ IncludesType(projectTypes, "javascript")
         \/ IncludesType(projectTypes, "typescript")
      THEN <<".js", ".jsx">>
           \o (IF IncludesType(projectTypes, "typescript")
               THEN <<".ts", ".tsx">> ELSE <<>>)
      ELSE <<>>)
  \o (IF IncludesType(projectTypes, "python") THEN <<".py">> ELSE <<>>)
  \o (IF IncludesType(projectTypes, "java") THEN <<".java">> ELSE <<>>)

\* path.join(dirPath, name) for the paths of the tree
PathJoin(dirPath, name) == IF dirPath = "." THEN name ELSE dirPath \o "/" \o name

\* path.relative(projectPath, file) for the paths of the tree
PathRelative(projectPath, file) ==
  IF projectPath # "." /\ StartsWith(file, projectPath \o "/")
  THEN From(file, Len(projectPath) + 2) ELSE file

\* path.join(projectPath, '.aiguardian', 'reports')
ReportsDir(projectPath) == PathJoin(PathJoin(projectPath, ".aiguardian"), "reports")

\* path.join(projectPath, '.aiguardian', 'reports', 'duplicate-code-report.txt')
ReportPath(projectPath) == PathJoin(ReportsDir(projectPath), "duplicate-code-report.txt")

\* a directory entry as readdir returns it with withFileTypes
Entry(name, isDirectory) == [name |-> name, isDirectory |-> isDirectory]

RECURSIVE FileEntries(_)
FileEntries(files) ==
  IF files = <<>> THEN <<>>
  ELSE <<Entry(Head(files).path, FALSE)>> \o FileEntries(Tail(files))

\* the directories of a project tree
DirPaths == {".", "lib", "node_modules", ".aiguardian", ".aiguardian/reports"}

\* A project: the files rootFiles and a text file in its directory, beside
\* them node_modules with a source file, and the directory lib with the
\* files libFiles when withLib.  The report directory does not exist yet.
Tree(rootFiles, libFiles, withLib) ==
  [dirs |->
     [d \in DirPaths |->
        CASE d = "." ->
               FileEntries(rootFiles)
               \o <<Entry("README.md", FALSE), Entry("node_modules", TRUE)>>
               \o (IF withLib THEN <<Entry("lib", TRUE)>> ELSE <<>>)
          [] d = "lib" -> FileEntries(libFiles)
          [] d = "node_modules" -> <<Entry("dep.js", FALSE)>>
          [] OTHER -> <<>>],
   files |->
     {[path |-> PathJoin(".", rootFiles[k].path), content |-> rootFiles[k].content] :
        k \in 1..Len(rootFiles)}
     \cup {[path |-> PathJoin("lib", libFiles[k].path), content |-> libFiles[k].content] :
             k \in 1..Len(libFiles)},
   reportsDir |-> FALSE,
   reportFile |-> <<>>]

\* the projects of at most n source files: all in the project directory, or
\* the last one in lib
Trees(n) ==
  {Tree(<<>>, <<>>, FALSE)}
  \cup {Tree(l, <<>>, FALSE) : l \in FileLists(n)}
  \cup {Tree(SubSeq(l, 1, Len(l) - 1), <<l[Len(l)]>>, TRUE) : l \in FileLists(n)}

\* a file system call the tree refuses, with the code of the error
Fault(op, path, code) == [op |-> op, path |-> path, code |-> code]

\* the error of the throw in findSourceFiles and in detectDuplicateCode
NotAString == [op |-> "", path |-> "", code |-> "Project path must be a string"]

\* error.message of that error, and of the error a refused call throws
ErrorMessage(error) ==
  IF error = NotAString THEN error.code
  ELSE error.code \o ": " \o error.op \o " '" \o error.path \o "'"

\* A tree refuses the same calls each time: a call refused in the first run
\* is refused in the second, a call served in the first is served again.
CanFail(fault) == runs = 1 \/ fault \in faults

CanSucceed(op, path) == ~\E f \in faults : f.op = op /\ f.path = path

\* fsOps after the call op on path
Called(op, path) == Append(fsOps, [op |-> op, path |-> path])

(***************************************************************************)
(* findSourceFiles                                                         *)
(***************************************************************************)

\* the directory names scanDirectory does not enter
IgnoredDirectory(name) ==
  \/ name \in {"node_modules", ".git", "dist", "build", ".aiguardian"}
  \/ StartsWith(name, "__pycache__")

\* extensions.some(ext => entry.name.endsWith(ext))
MatchesExtension(name, extensions) ==
  \E k \in 1..Len(extensions) : EndsWith(name, extensions[k])

\* scanDirectory(dirPath) on a tree that refuses to list the directories of
\* refused.  A rejected readdir is not caught: it ends every enclosing
\* scanDirectory.
RECURSIVE scanDirectory(_, _, _, _, _)
RECURSIVE ScanEntries(_, _, _, _, _, _)
scanDirectory(tree, extensions, refused, dirPath, scan) ==
  LET called == [scan EXCEPT !.calls = Append(@, dirPath)]
  IN IF dirPath \notin DOMAIN tree.dirs
     THEN [called EXCEPT !.thrown = TRUE, !.error = Fault("readdir", dirPath, "ENOENT")]
     ELSE IF dirPath \in refused
     THEN [called EXCEPT !.thrown = TRUE, !.error = Fault("readdir", dirPath, "EACCES")]
     ELSE ScanEntries(tree, extensions, refused, dirPath, 1, called)

\* the loop over the entries of dirPath from the k-th on
ScanEntries(tree, extensions, refused, dirPath, k, scan) ==
  IF scan.thrown \/ k > Len(tree.dirs[dirPath]) THEN scan
  ELSE LET entry == tree.dirs[dirPath][k]
           fullPath == PathJoin(dirPath, entry.name)
           after ==
             IF entry.isDirectory
             THEN IF ~IgnoredDirectory(entry.name)
                  THEN scanDirectory(tree, extensions, refused, fullPath, scan)
                  ELSE scan
             ELSE IF MatchesExtension(entry.name, extensions)
                  THEN [scan EXCEPT !.sourceFiles = Append(@, fullPath)]
                  ELSE scan
       IN ScanEntries(tree, extensions, refused, dirPath, k + 1, after)

\* findSourceFiles(projectPath, extensions): the walk, or the error it
\* rethrows
findSourceFiles(tree, projectPath, extensions, refused) ==
  LET start == [sourceFiles |-> <<>>, calls |-> <<>>, thrown |-> FALSE, error |-> None]
  IN IF ~IsString(projectPath)
     THEN [start EXCEPT !.thrown = TRUE, !.error = NotAString]
     ELSE scanDirectory(tree, extensions, refused, projectPath.value, start)

(***************************************************************************)
(* detectDuplicateCode up to the call of findDuplications                  *)
(***************************************************************************)

\* the result of the catch clause of detectDuplicateCode
Failure(message) == [success |-> FALSE, error |-> message]

\* the result of the two early returns
EmptyResult ==
  [success |-> TRUE,
   changes |-> <<>>,
   metrics |-> [duplicateBlocks |-> 0, affectedFiles |-> 0, potentialLinesReduced |-> 0]]

\* if (typeof projectPath !== 'string') throw, caught at the end
InvalidProjectPath ==
  /\ pc = "detectDuplicateCode"
  /\ ~IsString(ProjectPathOf(invocation))
  /\ output' = Failure(ErrorMessage(NotAString))
  /\ pc' = "returned"
  /\ UNCHANGED <<taskVars, dupVars, result, cmpVars, fileVars, rawContent, caller, invocation,
                 disk, faults, fsOps, reportContent, report, runs, firstOutput>>

ValidProjectPath ==
  /\ pc = "detectDuplicateCode"
  /\ IsString(ProjectPathOf(invocation))
  /\ pc' = "getFileExtensions"
  /\ UNCHANGED <<taskVars, dupVars, result, cmpVars, fileVars, runVars>>

\* if (extensions.length === 0) return
NoExtensions ==
  /\ pc = "getFileExtensions"
  /\ getFileExtensions(ProjectTypesOf(invocation)) = <<>>
  /\ output' = EmptyResult
  /\ pc' = "returned"
  /\ UNCHANGED <<taskVars, dupVars, result, cmpVars, fileVars, rawContent, caller, invocation,
                 disk, faults, fsOps, reportContent, report, runs, firstOutput>>

SomeExtensions ==
  /\ pc = "getFileExtensions"
  /\ getFileExtensions(ProjectTypesOf(invocation)) # <<>>
  /\ pc' = "findSourceFiles"
  /\ UNCHANGED <<taskVars, dupVars, result, cmpVars, fileVars, runVars>>

\* the walk of the call findSourceFiles(projectPath, extensions)
Scan(refused) ==
  findSourceFiles(disk, ProjectPathOf(invocation),
                  getFileExtensions(ProjectTypesOf(invocation)), refused)

\* refused is what the tree does to the directories the walk lists
Refuses(refused, scan) ==
  LET listed == {scan.calls[k] : k \in 1..Len(scan.calls)}
  IN /\ refused \subseteq listed
     /\ \A d \in refused : CanFail(Fault("readdir", d, "EACCES"))
     /\ \A d \in listed \ refused : CanSucceed("readdir", d)

\* fsOps after the readdir calls of a walk
RECURSIVE CalledAll(_, _, _)
CalledAll(ops, op, paths) ==
  IF paths = <<>> THEN ops
  ELSE CalledAll(Append(ops, [op |-> op, path |-> Head(paths)]), op, Tail(paths))

\* findSourceFiles throws: caught at the end of detectDuplicateCode
FindSourceFilesThrows ==
  /\ pc = "findSourceFiles"
  /\ \E refused \in SUBSET DirPaths :
       LET scan == Scan(refused)
       IN /\ Refuses(refused, scan)
          /\ scan.thrown
          /\ faults' = faults \cup {Fault("readdir", d, "EACCES") : d \in refused}
          /\ fsOps' = CalledAll(fsOps, "readdir", scan.calls)
          /\ output' = Failure(ErrorMessage(scan.error))
  /\ pc' = "returned"
  /\ UNCHANGED <<taskVars, dupVars, result, cmpVars, fileVars, rawContent, caller, invocation,
                 disk, reportContent, report, runs, firstOutput>>

\* if (sourceFiles.length === 0) return
NoSourceFiles ==
  /\ pc = "findSourceFiles"
  /\ \E refused \in SUBSET DirPaths :
       LET scan == Scan(refused)
       IN /\ Refuses(refused, scan)
          /\ ~scan.thrown
          /\ Len(scan.sourceFiles) = 0
          /\ fsOps' = CalledAll(fsOps, "readdir", scan.calls)
  /\ output' = EmptyResult
  /\ pc' = "returned"
  /\ UNCHANGED <<taskVars, dupVars, result, cmpVars, fileVars, rawContent, caller, invocation,
                 disk, faults, reportContent, report, runs, firstOutput>>

\* const sourceFiles = await findSourceFiles(projectPath, extensions);
\* const allBlocks = []; const minBlockSize = options.minBlockSize || 5
FoundSourceFiles ==
  /\ pc = "findSourceFiles"
  /\ \E refused \in SUBSET DirPaths :
       LET scan == Scan(refused)
       IN /\ Refuses(refused, scan)
          /\ ~scan.thrown
          /\ Len(scan.sourceFiles) > 0
          /\ fsOps' = CalledAll(fsOps, "readdir", scan.calls)
          /\ sourceFiles' = [k \in 1..Len(scan.sourceFiles) |->
                               [path |-> scan.sourceFiles[k],
                                content |->
                                  (CHOOSE f \in disk.files :
                                     f.path = scan.sourceFiles[k]).content]]
  /\ allBlocks' = <<>>
  /\ minBlockSize' = OptionOrDefault(OptionsOf(invocation).minBlockSize, DefaultMinBlockSize)
  /\ fileIndex' = 1
  /\ pc' = "readFiles"
  /\ UNCHANGED <<taskVars, similarityThreshold, i, j, instances, similarBlockIndices,
                 processedBlocks, duplications, result, cmpVars, rawContent, caller,
                 invocation, disk, faults, reportContent, output, report, runs,
                 firstOutput>>

\* one iteration of the loop over sourceFiles: readFile, findCodeBlocks, push
ReadFile ==
  /\ pc = "readFiles"
  /\ fileIndex <= Len(sourceFiles)
  /\ CanSucceed("readFile", sourceFiles[fileIndex].path)
  /\ fsOps' = Called("readFile", sourceFiles[fileIndex].path)
  /\ allBlocks' = allBlocks \o findCodeBlocks(sourceFiles[fileIndex].path,
                                              sourceFiles[fileIndex].content, minBlockSize)
  /\ fileIndex' = fileIndex + 1
  /\ UNCHANGED <<taskVars, pc, similarityThreshold, i, j, instances, similarBlockIndices,
                 processedBlocks, duplications, result, cmpVars, sourceFiles, minBlockSize,
                 rawContent, caller, invocation, disk, faults, reportContent, output,
                 report, runs, firstOutput>>

\* one iteration whose readFile is rejected: the catch clause logs the error
ReadFileFails ==
  /\ pc = "readFiles"
  /\ fileIndex <= Len(sourceFiles)
  /\ CanFail(Fault("readFile", sourceFiles[fileIndex].path, "EACCES"))
  /\ faults' = faults \cup {Fault("readFile", sourceFiles[fileIndex].path, "EACCES")}
  /\ fsOps' = Called("readFile", sourceFiles[fileIndex].path)
  /\ fileIndex' = fileIndex + 1
  /\ UNCHANGED <<taskVars, pc, dupVars, result, cmpVars, sourceFiles, minBlockSize,
                 rawContent, caller, invocation, disk, reportContent, output,
                 report, runs, firstOutput>>

\* const similarityThreshold = options.similarityThreshold || 0.8;
\* const duplications = findDuplications(allBlocks, similarityThreshold)
CallFindDuplications ==
  /\ pc = "readFiles"
  /\ fileIndex > Len(sourceFiles)
  /\ similarityThreshold' = ThresholdOrDefault(OptionsOf(invocation).similarityThreshold)
  /\ pc' = "findDuplications"
  /\ UNCHANGED <<taskVars, allBlocks, i, j, instances, similarBlockIndices, processedBlocks,
                 duplications, result, cmpVars, fileVars, runVars>>

(***************************************************************************)
(* Metrics and report.  The report is kept line by line; the box-drawing   *)
(* and sign glyphs that decorate its titles in the source are left out.    *)
(***************************************************************************)

\* instances.reduce((sum, instance) => sum + (instance.endLine - instance.startLine + 1), 0)
RECURSIVE SumLines(_)
SumLines(insts) ==
  IF insts = <<>> THEN 0 ELSE LineCount(Head(insts)) + SumLines(Tail(insts))

\* AvgLines rounding up
AvgLines_ceiling(insts) == (SumLines(insts) + Len(insts) - 1) \div Len(insts)

\* Math.floor(sum / instances.length)
AvgLines(insts) == SumLines(insts) \div Len(insts)

\* the suggestion of formatDuplicationReport
DetailSuggestion(insts, similarity) ==
  IF Len(insts) >= 3
  THEN "Consider extracting this code into a shared utility function."
  ELSE IF RatGeq(similarity, Rat(9, 10))
       THEN "Extract this code into a parameterized function to avoid duplication."
       ELSE "Review these similar code blocks for potential refactoring."

\* the lines of the locations from the k-th instance on
\* (numbered in the detailed report, dashed in the optimization report)
RECURSIVE LocationLines(_, _, _, _)
LocationLines(insts, k, projectPath, style) ==
  IF k > Len(insts) THEN <<>>
  ELSE <<(IF style = "numbered" THEN "    " \o ToString(k) \o ". " ELSE "   - ")
         \o PathRelative(projectPath, insts[k].file)
         \o " (lines " \o ToString(insts[k].startLine) \o "-"
         \o ToString(insts[k].endLine) \o ")">>
       \o LocationLines(insts, k + 1, projectPath, style)

\* formatDuplicationReport(duplication, index, projectPath), with
\* Math.round(similarity * 100) and avgLines * (instances.length - 1)
formatDuplicationReport(duplication, index, projectPath) ==
  <<"Duplication #" \o ToString(index + 1) \o ":",
    "  Similarity: "
    \o ToString((200 * duplication.similarity.num + duplication.similarity.den)
                 \div (2 * duplication.similarity.den)) \o "%",
    "  Instances: " \o ToString(Len(duplication.instances)),
    "  Average Lines: " \o ToString(AvgLines(duplication.instances)),
    "  Potential Lines Reduced: "
    \o ToString(AvgLines(duplication.instances) * (Len(duplication.instances) - 1)),
    "  Locations:">>
  \o LocationLines(duplication.instances, 1, projectPath, "numbered")
  \o <<"  Suggestion: " \o DetailSuggestion(duplication.instances, duplication.similarity),
       "">>

\* affectedFiles after the loop over the clusters
AffectedFiles(dups) ==
  UNION {{dups[c].instances[k].file : k \in 1..Len(dups[c].instances)} :
           c \in 1..Len(dups)}

\* totalPotentialLinesReduced after the loop over the clusters
RECURSIVE TotalPotentialLinesReduced(_)
TotalPotentialLinesReduced(dups) ==
  IF dups = <<>> THEN 0
  ELSE AvgLines(Head(dups).instances) * (Len(Head(dups).instances) - 1)
       + TotalPotentialLinesReduced(Tail(dups))

\* the branch of the recommendations taken for totalPotentialLinesReduced
Severity(total) ==
  IF total > 100 THEN "HIGH"
  ELSE IF total > 50 THEN "MODERATE"
  ELSE IF total > 0 THEN "LOW"
  ELSE "NO"

\* the first line of each of the four recommendation messages
SeverityTitle(severity) ==
  CASE severity = "HIGH" ->
         "HIGH DUPLICATION: Your codebase has significant code duplication."
    [] severity = "MODERATE" ->
         "MODERATE DUPLICATION: Your codebase has some code duplication."
    [] severity = "LOW" ->
         "LOW DUPLICATION: Your codebase has minor code duplication."
    [] severity = "NO" ->
         "NO DUPLICATION: Your codebase has no significant code duplication."

\* the recommendation message of a severity
Recommendation(severity) ==
  <<SeverityTitle(severity)>>
  \o CASE severity = "HIGH" ->
            <<"Consider implementing the following refactoring strategies:",
              "1. Extract utility functions for common operations",
              "2. Create base classes or mixins for shared functionality",
              "3. Implement a more modular architecture">>
       [] severity = "MODERATE" ->
            <<"Consider implementing the following refactoring strategies:",
              "1. Extract shared code into helper functions",
              "2. Use composition to share behavior between components">>
       [] severity = "LOW" ->
            <<"Consider reviewing the identified duplications and refactoring as needed.">>
       [] severity = "NO" -> <<>>

\* the details of the clusters from the k-th on
RECURSIVE DetailLines(_, _, _)
DetailLines(dups, k, projectPath) ==
  IF k > Len(dups) THEN <<>>
  ELSE formatDuplicationReport(dups[k], k - 1, projectPath)
       \o DetailLines(dups, k + 1, projectPath)

\* reportContent when it is written
ReportLines(dups, fileCount, projectPath) ==
  <<"Duplicate Code Detection Report", "">>
  \o IF Len(dups) = 0
     THEN <<"No duplicate code blocks found in the project.">>
     ELSE <<"Found " \o ToString(Len(dups)) \o " duplicate code blocks across "
            \o ToString(fileCount) \o " files.",
            "">>
          \o DetailLines(dups, 1, projectPath)
          \o <<"Summary",
               "Total Duplicate Blocks: " \o ToString(Len(dups)),
               "Affected Files: " \o ToString(Cardinality(AffectedFiles(dups))),
               "Potential Lines Reduced: " \o ToString(TotalPotentialLinesReduced(dups)),
               "",
               "Recommendations">>
          \o Recommendation(Severity(TotalPotentialLinesReduced(dups)))

\* reportPath of a result without a report
null == "null"

\* resultDuplications: the clusters with their line metrics
ResultDuplications(dups) ==
  [c \in 1..Len(dups) |->
     [similarity |-> dups[c].similarity,
      instances |-> [k \in 1..Len(dups[c].instances) |->
                       Block(dups[c].instances[k].file, dups[c].instances[k].startLine,
                             dups[c].instances[k].endLine, dups[c].instances[k].content)],
      avgLines |-> AvgLines(dups[c].instances),
      potentialLinesReduced |-> AvgLines(dups[c].instances) * (Len(dups[c].instances) - 1)]]

\* the result of a run that reached its end
SuccessResult(dups, projectPath) ==
  [success |-> TRUE,
   changes |-> <<>>,
   metrics |-> [duplicateBlocks |-> Len(dups),
                affectedFiles |-> Cardinality(AffectedFiles(dups)),
                potentialLinesReduced |-> TotalPotentialLinesReduced(dups)],
   duplications |-> ResultDuplications(dups),
   reportPath |-> IF Len(dups) > 0 THEN ReportPath(projectPath) ELSE null]

(***************************************************************************)
(* detectDuplicateCode after findDuplications has returned                 *)
(***************************************************************************)

\* the project path of a call that passed the validation
ProjectDir == ProjectPathOf(invocation).value

\* await fs.mkdir(reportsDir, { recursive: true })
MakeReportsDir ==
  /\ pc = "done"
  /\ caller = "detectDuplicateCode"
  /\ CanSucceed("mkdir", ReportsDir(ProjectDir))
  /\ fsOps' = Called("mkdir", ReportsDir(ProjectDir))
  /\ disk' = [disk EXCEPT
                !.reportsDir = TRUE,
                !.dirs = [@ EXCEPT
                            !["."] = IF \E k \in 1..Len(@) : @[k].name = ".aiguardian"
                                     THEN @ ELSE Append(@, Entry(".aiguardian", TRUE)),
                            ![".aiguardian"] = <<Entry("reports", TRUE)>>]]
  /\ pc' = "writeReport"
  /\ UNCHANGED <<taskVars, dupVars, result, cmpVars, fileVars, rawContent, caller, invocation,
                 faults, reportContent, output, report, runs, firstOutput>>

\* mkdir is rejected with EEXIST (a file stands where a directory is to be
\* made): the catch clause ignores the error
MakeReportsDirExists ==
  /\ pc = "done"
  /\ caller = "detectDuplicateCode"
  /\ ~disk.reportsDir
  /\ CanFail(Fault("mkdir", ReportsDir(ProjectDir), "EEXIST"))
  /\ faults' = faults \cup {Fault("mkdir", ReportsDir(ProjectDir), "EEXIST")}
  /\ fsOps' = Called("mkdir", ReportsDir(ProjectDir))
  /\ pc' = "writeReport"
  /\ UNCHANGED <<taskVars, dupVars, result, cmpVars, fileVars, rawContent, caller, invocation,
                 disk, reportContent, output, report, runs, firstOutput>>

\* mkdir is rejected with another error: the catch clause throws it again,
\* and it is caught at the end of detectDuplicateCode
MakeReportsDirThrows ==
  /\ pc = "done"
  /\ caller = "detectDuplicateCode"
  /\ ~disk.reportsDir
  /\ CanFail(Fault("mkdir", ReportsDir(ProjectDir), "EACCES"))
  /\ faults' = faults \cup {Fault("mkdir", ReportsDir(ProjectDir), "EACCES")}
  /\ fsOps' = Called("mkdir", ReportsDir(ProjectDir))
  /\ output' = Failure(ErrorMessage(Fault("mkdir", ReportsDir(ProjectDir), "EACCES")))
  /\ pc' = "returned"
  /\ UNCHANGED <<taskVars, dupVars, result, cmpVars, fileVars, rawContent, caller, invocation,
                 disk, reportContent, report, runs, firstOutput>>

\* WriteReport with the report file written only when dryRun is not set
WriteReport_unlessDryRun ==
  /\ pc = "writeReport"
  /\ disk.reportsDir
  /\ CanSucceed("writeFile", ReportPath(ProjectDir))
  /\ reportContent' = ReportLines(result, Len(sourceFiles), ProjectDir)
  /\ fsOps' = IF OptionsOf(invocation).dryRun THEN fsOps
              ELSE Called("writeFile", ReportPath(ProjectDir))
  /\ disk' = IF OptionsOf(invocation).dryRun THEN disk
             ELSE [disk EXCEPT
                     !.reportFile = reportContent',
                     !.dirs = [@ EXCEPT ![".aiguardian/reports"] =
                                          <<Entry("duplicate-code-report.txt", FALSE)>>]]
  /\ output' = SuccessResult(result, ProjectDir)
  /\ pc' = "returned"
  /\ UNCHANGED <<taskVars, dupVars, result, cmpVars, fileVars, rawContent, caller, invocation,
                 faults, report, runs, firstOutput>>

\* the metrics and the report content, await fs.writeFile(reportPath,
\* reportContent, 'utf8'), and the return of the result
WriteReport ==
  /\ pc = "writeReport"
  /\ disk.reportsDir
  /\ CanSucceed("writeFile", ReportPath(ProjectDir))
  /\ reportContent' = ReportLines(result, Len(sourceFiles), ProjectDir)
  /\ fsOps' = Called("writeFile", ReportPath(ProjectDir))
  /\ disk' = [disk EXCEPT
                !.reportFile = reportContent',
                !.dirs = [@ EXCEPT ![".aiguardian/reports"] =
                                     <<Entry("duplicate-code-report.txt", FALSE)>>]]
  /\ output' = SuccessResult(result, ProjectDir)
  /\ pc' = "returned"
  /\ UNCHANGED <<taskVars, dupVars, result, cmpVars, fileVars, rawContent, caller, invocation,
                 faults, report, runs, firstOutput>>

\* writeFile is rejected, for want of the directory or of room: caught at
\* the end of detectDuplicateCode
WriteReportFails ==
  /\ pc = "writeReport"
  /\ \E code \in {"ENOTDIR", "ENOSPC"} :
       LET fault == Fault("writeFile", ReportPath(ProjectDir), code)
       IN /\ code = "ENOTDIR" <=> ~disk.reportsDir
          /\ CanFail(fault)
          /\ faults' = faults \cup {fault}
          /\ output' = Failure(ErrorMessage(fault))
  /\ reportContent' = ReportLines(result, Len(sourceFiles), ProjectDir)
  /\ fsOps' = Called("writeFile", ReportPath(ProjectDir))
  /\ pc' = "returned"
  /\ UNCHANGED <<taskVars, dupVars, result, cmpVars, fileVars, rawContent, caller, invocation,
                 disk, report, runs, firstOutput>>

\* NewSet keeping the set of the call before
NewSet_kept(previous) == previous

\* const processedBlocks = new Set()
NewSet(previous) == {}

\* A second call with the same arguments on the tree the first call left:
\* the parameters and the locals of the call are new.
RunAgain ==
  /\ pc = "returned"
  /\ runs = 1
  /\ firstOutput' = output
  /\ runs' = 2
  /\ pc' = "detectDuplicateCode"
  /\ output' = None
  /\ fsOps' = <<>>
  /\ reportContent' = <<>>
  /\ sourceFiles' = <<>>
  /\ fileIndex' = 1
  /\ minBlockSize' = DefaultMinBlockSize
  /\ allBlocks' = <<>>
  /\ similarityThreshold' = DefaultThreshold
  /\ i' = 0
  /\ j' = 0
  /\ instances' = <<>>
  /\ similarBlockIndices' = <<>>
  /\ processedBlocks' = NewSet(processedBlocks)
  /\ duplications' = <<>>
  /\ result' = None
  /\ UNCHANGED <<taskVars, cmpVars, rawContent, caller, invocation, disk, faults, report>>

(***************************************************************************)
(* generateOptimizationReport: the section on duplicate code               *)
(***************************************************************************)

\* AggregateSuggestion asking for the similarity before the instance count
AggregateSuggestion_similarityFirst(insts, similarity) ==
  IF RatGeq(similarity, Rat(9, 10))
  THEN "Extract this code into a parameterized function to avoid duplication."
  ELSE IF Len(insts) >= 3
       THEN "Consider extracting this code into a shared utility function."
       ELSE "Review these similar code blocks for potential refactoring."

\* the suggestion of generateOptimizationReport
AggregateSuggestion(insts, similarity) ==
  IF Len(insts) >= 3
  THEN "Consider extracting this code into a shared utility function."
  ELSE IF RatGeq(similarity, Rat(9, 10))
       THEN "Extract this code into a parameterized function to avoid duplication."
       ELSE "Review these similar code blocks for potential refactoring."

\* the entries of the clusters from the k-th on
RECURSIVE SectionLines(_, _, _)
SectionLines(dups, k, projectPath) ==
  IF k > Len(dups) THEN <<>>
  ELSE <<ToString(k) \o ". Duplication across " \o ToString(Len(dups[k].instances))
         \o " locations:">>
       \o LocationLines(dups[k].instances, 1, projectPath, "dashed")
       \o <<"   Suggestion: " \o AggregateSuggestion(dups[k].instances, dups[k].similarity),
            "">>
       \o SectionLines(dups, k + 1, projectPath)

\* the section of the report for the result of detectDuplicateCode (the
\* colours of the heading are left out)
DuplicateCodeSection(duplicateCodeResult, projectPath) ==
  IF /\ duplicateCodeResult.success
     /\ "duplications" \in DOMAIN duplicateCodeResult
     /\ Len(duplicateCodeResult.duplications) > 0
  THEN <<"", "Duplicate Code">>
       \o SectionLines(duplicateCodeResult.duplications, 1, projectPath)
  ELSE <<>>

\* generateOptimizationReport({ 'detect-duplicate-code': output }, projectPath)
GenerateOptimizationReport ==
  /\ pc = "returned"
  /\ report' = DuplicateCodeSection(output, ProjectDir)
  /\ pc' = "reported"
  /\ UNCHANGED <<taskVars, dupVars, result, cmpVars, fileVars, rawContent, caller, invocation,
                 disk, faults, fsOps, reportContent, output, runs, firstOutput>>

(***************************************************************************)
(* detectDuplicateCode on a project, once and twice                        *)
(***************************************************************************)

InitDetect ==
  /\ IdleTasks
  /\ pc = "detectDuplicateCode"
  /\ invocation \in PositionalInvocations \cup ObjectInvocations
  /\ disk \in Trees(MaxFiles)
  /\ caller = "detectDuplicateCode"
  /\ runs = 1
  /\ faults = {}
  /\ fsOps = <<>>
  /\ reportContent = <<>>
  /\ output = None
  /\ firstOutput = None
  /\ report = <<>>
  /\ rawContent = ""
  /\ sourceFiles = <<>>
  /\ fileIndex = 1
  /\ minBlockSize = DefaultMinBlockSize
  /\ allBlocks = <<>>
  /\ similarityThreshold = DefaultThreshold
  /\ result = None
  /\ i = 0
  /\ j = 0
  /\ instances = <<>>
  /\ similarBlockIndices = <<>>
  /\ processedBlocks = {}
  /\ duplications = <<>>
  /\ block1 = None
  /\ block2 = None

NextDetect ==
  \/ InvalidProjectPath
  \/ ValidProjectPath
  \/ NoExtensions
  \/ SomeExtensions
  \/ FindSourceFilesThrows
  \/ NoSourceFiles
  \/ FoundSourceFiles
  \/ ReadFile
  \/ ReadFileFails
  \/ CallFindDuplications
  \/ EmptyInput
  \/ EnterLoop
  \/ SkipAnchor
  \/ StartAnchor
  \/ SkipProcessedCandidate
  \/ SkipSizeCandidate
  \/ AddCandidate
  \/ RejectCandidate
  \/ EmitCluster
  \/ NoCluster
  \/ SortAndReturn
  \/ MakeReportsDir
  \/ MakeReportsDirExists
  \/ MakeReportsDirThrows
  \/ WriteReport
  \/ WriteReportFails

SpecDetect == InitDetect /\ [][NextDetect]_vars

Spec == SpecDetect

\* two calls detectDuplicateCode(projectPath, projectTypes) in a row
InitTwice == InitDetect /\ invocation \in PositionalInvocations

NextTwice == NextDetect \/ RunAgain

SpecTwice == InitTwice /\ [][NextTwice]_vars

\* what a call did: its blocks, clusters, result, file system calls and the
\* tree it left
Outcome ==
  [allBlocks |-> allBlocks, result |-> result, output |-> output,
   reportContent |-> reportContent, fsOps |-> fsOps, disk |-> disk]

\* The call detectDuplicateCode({..., dryRun: true}) after the same call
\* without dryRun, on the tree as it was before that call.
RunWithDryRun ==
  /\ pc = "returned"
  /\ runs = 1
  /\ firstOutput' = Outcome
  /\ invocation' = [invocation EXCEPT !.projectPathOrOptions.value.dryRun = TRUE]
  /\ disk' = [disk EXCEPT
                !.reportsDir = FALSE,
                !.reportFile = <<>>,
                !.dirs = [@ EXCEPT
                            !["."] = SelectSeq(@, LAMBDA e : e.name # ".aiguardian"),
                            ![".aiguardian"] = <<>>,
                            ![".aiguardian/reports"] = <<>>]]
  /\ runs' = 2
  /\ pc' = "detectDuplicateCode"
  /\ output' = None
  /\ fsOps' = <<>>
  /\ reportContent' = <<>>
  /\ sourceFiles' = <<>>
  /\ fileIndex' = 1
  /\ minBlockSize' = DefaultMinBlockSize
  /\ allBlocks' = <<>>
  /\ similarityThreshold' = DefaultThreshold
  /\ i' = 0
  /\ j' = 0
  /\ instances' = <<>>
  /\ similarBlockIndices' = <<>>
  /\ processedBlocks' = NewSet(processedBlocks)
  /\ duplications' = <<>>
  /\ result' = None
  /\ UNCHANGED <<taskVars, cmpVars, rawContent, caller, faults, report>>

InitDryRun == InitDetect /\ invocation \in ObjectInvocations

NextDryRun == NextDetect \/ RunWithDryRun

SpecDryRun == InitDryRun /\ [][NextDryRun]_vars


(***************************************************************************)
(* The report of detectDuplicateCode for the blocks of three files         *)
(***************************************************************************)

\* longest list of blocks given to the report
MaxReportBlocks == 4

\* blocks to draw from: three blocks of 50 lines in three files, the third a
\* near duplicate of the first; a pair of 51 lines; and a pair of 5 and 6
\* lines made of kept keywords, whose score is 9/10
ReportBlockLibrary == {
  Block("a.js", 1, 50, "if x = 1 ;"),
  Block("b.js", 1, 50, "if y = 2 ;"),
  Block("c.js", 1, 50, "if x = 1"),
  Block("a.js", 60, 110, "for y"),
  Block("b.js", 60, 110, "for x"),
  Block("a.js", 200, 204, "if for while switch return function class import export var"),
  Block("b.js", 200, 205, "if for while switch return function class import export")
}

\* the lists of at most n distinct blocks of the library
RECURSIVE ReportBlockLists(_)
ReportBlockLists(n) ==
  IF n = 0 THEN {<<>>}
  ELSE LET shorter == ReportBlockLists(n - 1)
       IN shorter \cup
          {Append(l, b) : <<l, b>> \in
             {p \in shorter \X ReportBlockLibrary :
                /\ Len(p[1]) = n - 1
                /\ \A k \in 1..Len(p[1]) : p[1][k] # p[2]}}

\* detectDuplicateCode('.') at the call of findDuplications, on the three
\* files of the blocks, whose contents are not kept
InitReport ==
  /\ IdleTasks
  /\ pc = "findDuplications"
  /\ caller = "detectDuplicateCode"
  /\ invocation = [projectPathOrOptions |-> [type |-> "string", value |-> "."],
                   projectTypes |-> <<>>,
                   options |-> [minBlockSize |-> 0, similarityThreshold |-> Rat(0, 1)]]
  /\ sourceFiles = <<[path |-> "a.js", content |-> ""], [path |-> "b.js", content |-> ""],
                     [path |-> "c.js", content |-> ""]>>
  /\ disk = Tree(sourceFiles, <<>>, FALSE)
  /\ fileIndex = Len(sourceFiles) + 1
  /\ minBlockSize = DefaultMinBlockSize
  /\ fsOps = CalledAll(CalledAll(<<>>, "readdir", <<".">>), "readFile",
                       <<"a.js", "b.js", "c.js">>)
  /\ allBlocks \in ReportBlockLists(MaxReportBlocks)
  /\ similarityThreshold = DefaultThreshold
  /\ runs = 1
  /\ faults = {}
  /\ reportContent = <<>>
  /\ output = None
  /\ firstOutput = None
  /\ report = <<>>
  /\ rawContent = ""
  /\ result = None
  /\ i = 0
  /\ j = 0
  /\ instances = <<>>
  /\ similarBlockIndices = <<>>
  /\ processedBlocks = {}
  /\ duplications = <<>>
  /\ block1 = None
  /\ block2 = None

NextReport ==
  \/ NextDuplications
  \/ MakeReportsDir
  \/ MakeReportsDirExists
  \/ MakeReportsDirThrows
  \/ WriteReport
  \/ WriteReportFails
  \/ GenerateOptimizationReport

SpecReport == InitReport /\ [][NextReport]_vars

(***************************************************************************)
(* findCodeBlocks on files with functions that end on the line they start  *)
(***************************************************************************)

\* longest file, in lines
MaxScanLines == 4

\* lines to draw from: a function start that opens a brace, one that closes
\* it again, a statement, a closing brace, a comment with a brace, a blank
ScanLineLibrary == {"function f() {", "function g() { }", "x;", "}", "// {", ""}

\* the texts of at most n lines of the library, joined by line feeds
RECURSIVE ScanTexts(_)
ScanTexts(n) ==
  IF n = 1 THEN ScanLineLibrary
  ELSE LET shorter == ScanTexts(n - 1)
       IN shorter \cup {t \o "\n" \o l : t \in shorter, l \in ScanLineLibrary}

InitScan ==
  /\ IdleTasks
  /\ pc = "findCodeBlocks"
  /\ sourceFiles \in {<<[path |-> "a.js", content |-> t]>> : t \in ScanTexts(MaxScanLines)}
  /\ minBlockSize \in 1..MaxMinBlockSize
  /\ fileIndex = 1
  /\ result = None
  /\ allBlocks = <<>>
  /\ similarityThreshold = DefaultThreshold
  /\ i = 0
  /\ j = 0
  /\ instances = <<>>
  /\ similarBlockIndices = <<>>
  /\ processedBlocks = {}
  /\ duplications = <<>>
  /\ block1 = None
  /\ block2 = None
  /\ IdleRun

SpecScan == InitScan /\ [][NextExtract]_vars

(***************************************************************************)
(* normalizeContent on two blocks with two string literals each            *)
(***************************************************************************)

\* first string literals: two plain ones, one with several words, one that
\* holds an apostrophe between double quotes
FirstLiterals == {"'a'", "\"b\"", "'c d'", "\"it's\""}

\* later string literals of one, two, two and three words
LaterLiterals == {"'a'", "'a b'", "'c d'", "'a b c'"}

\* a call with two string literals
TwoLiteralCall(first, later) == "log(" \o first \o ", " \o later \o ");"

InitMask ==
  /\ IdleTasks
  /\ pc = "normalizeContent"
  /\ block1 \in {Block("a.js", 1, 1, TwoLiteralCall(f, l)) : f \in FirstLiterals, l \in LaterLiterals}
  /\ block2 \in {Block("a.js", 1, 1, TwoLiteralCall(f, l)) : f \in FirstLiterals, l \in LaterLiterals}
  /\ result = None
  /\ allBlocks = <<>>
  /\ similarityThreshold = DefaultThreshold
  /\ i = 0
  /\ j = 0
  /\ instances = <<>>
  /\ similarBlockIndices = <<>>
  /\ processedBlocks = {}
  /\ duplications = <<>>
  /\ sourceFiles = <<>>
  /\ fileIndex = 0
  /\ minBlockSize = DefaultMinBlockSize
  /\ IdleRun

\* the two calls of normalizeContent at the head of compareBlocks
NormalizeBoth ==
  /\ pc = "normalizeContent"
  /\ result' = <<normalizeContent(block1.content), normalizeContent(block2.content)>>
  /\ pc' = "done"
  /\ UNCHANGED <<taskVars, dupVars, cmpVars, fileVars, runVars>>

SpecMask == InitMask /\ [][NormalizeBoth]_vars

(***************************************************************************)
(* TaskRegistry                                                            *)
(***************************************************************************)

\* a task; taskFn names what its function does when it is called, and
\* projectTypes is <<>> for a task without that property
Task(id, taskFn, projectTypes) ==
  [id |-> id, taskFn |-> taskFn, projectTypes |-> projectTypes]

\* object[key] = value
Put(object, key, value) ==
  [k \in DOMAIN object \cup {key} |-> IF k = key THEN value ELSE object[k]]

\* this.tasks as the constructor leaves it
ConstructedRegistry ==
  [category \in {"common", "javascript", "typescript", "python", "java"} |->
     CASE category = "common" -> <<Task("optimize-gitignore", "succeeds", <<>>)>>
       [] category = "javascript" ->
            <<Task("detect-unused-dependencies", "succeeds", <<>>)>>
       [] category = "python" -> <<Task("analyze-requirements", "succeeds", <<>>)>>
       [] OTHER -> <<>>]

\* clearTasks()
clearTasks(reg) == [category \in DOMAIN reg |-> <<>>]

\* registerTask with every task added at the end of its category
registerIn_push(list, task) == Append(list, task)

\* the body of the loop of registerTask, and its else branch: the task takes
\* the place of the task of its id, or goes to the end of the list
registerIn(list, task) ==
  LET found == {k \in 1..Len(list) : list[k].id = task.id}
  IN IF found # {}
     THEN [list EXCEPT ![CHOOSE k \in found : \A m \in found : k <= m] = task]
     ELSE Append(list, task)

\* the loop of registerTask over projectTypes[from..]
RECURSIVE registerForTypes(_, _, _)
registerForTypes(reg, task, from) ==
  IF from > Len(task.projectTypes) THEN reg
  ELSE LET projectType == task.projectTypes[from]
           list == IF projectType \in DOMAIN reg THEN reg[projectType] ELSE <<>>
       IN registerForTypes(Put(reg, projectType, registerIn(list, task)), task, from + 1)

\* registerTask(task)
registerTask(reg, task) ==
  IF Len(task.projectTypes) > 0 THEN registerForTypes(reg, task, 1)
  ELSE [reg EXCEPT !["common"] = registerIn(@, task)]

\* applicableTasks of getTasksForProjectTypes: the tasks of projectTypes[from..]
RECURSIVE TasksOfTypes(_, _, _)
TasksOfTypes(reg, projectTypes, from) ==
  IF from > Len(projectTypes) THEN <<>>
  ELSE (IF projectTypes[from] \in DOMAIN reg THEN reg[projectTypes[from]] ELSE <<>>)
       \o TasksOfTypes(reg, projectTypes, from + 1)

\* uniqueTasks of getTasksForProjectTypes: the first task of every id
RECURSIVE UniqueTasks(_)
UniqueTasks(list) ==
  IF list = <<>> THEN <<>>
  ELSE LET before == UniqueTasks(SubSeq(list, 1, Len(list) - 1))
           task == list[Len(list)]
       IN IF \E k \in 1..Len(before) : before[k].id = task.id THEN before
          ELSE Append(before, task)

\* getTasksForProjectTypes(projectTypes), which getTasksByProjectType returns
getTasksForProjectTypes(reg, projectTypes) ==
  IF Len(projectTypes) = 0 THEN reg["common"]
  ELSE UniqueTasks(reg["common"] \o TasksOfTypes(reg, projectTypes, 1))

\* most calls of registerTask in a run
MaxRegistered == 2

\* tasks to register: two ids, two functions, no project type, one, two, and
\* the same one twice
RegistryTasks ==
  {Task(id, fn, types) :
     id \in {"a", "b"}, fn \in {"succeeds", "fails"},
     types \in {<<>>, <<"javascript">>, <<"javascript", "web">>, <<"web", "web">>}}

\* project types to ask for: none, known ones, one twice, common itself, and
\* one no task was registered for
TypeLists ==
  {<<>>, <<"javascript">>, <<"web">>, <<"javascript", "web">>,
   <<"javascript", "javascript">>, <<"common", "web">>, <<"rust">>}

InitRegistry ==
  /\ pc = "constructed"
  /\ registry = ConstructedRegistry
  /\ call = None
  /\ tasks = <<>>
  /\ taskIndex = 0
  /\ results = None
  /\ managerResults = None
  /\ calls = <<>>
  /\ result = None
  /\ allBlocks = <<>>
  /\ similarityThreshold = DefaultThreshold
  /\ i = 0
  /\ j = 0
  /\ instances = <<>>
  /\ similarBlockIndices = <<>>
  /\ processedBlocks = {}
  /\ duplications = <<>>
  /\ block1 = None
  /\ block2 = None
  /\ sourceFiles = <<>>
  /\ fileIndex = 0
  /\ minBlockSize = DefaultMinBlockSize
  /\ IdleRun

\* taskRegistry.clearTasks()
ClearTasks ==
  /\ pc \in {"constructed", "cleared"}
  /\ registry' = clearTasks(registry)
  /\ calls' = <<>>
  /\ result' = None
  /\ pc' = "cleared"
  /\ UNCHANGED <<dupVars, cmpVars, fileVars, runVars, call, tasks, taskIndex, results,
                 managerResults>>

\* taskRegistry.registerTask(task)
RegisterTask ==
  /\ pc \in {"constructed", "cleared"}
  /\ Len(calls) < MaxRegistered
  /\ \E task \in RegistryTasks :
       /\ registry' = registerTask(registry, task)
       /\ calls' = Append(calls, task)
  /\ result' = None
  /\ UNCHANGED <<pc, dupVars, cmpVars, fileVars, runVars, call, tasks, taskIndex,
                 results, managerResults>>

\* taskRegistry.getTasksByProjectType(projectTypes)
GetTasksByProjectType ==
  /\ pc \in {"constructed", "cleared"}
  /\ \E projectTypes \in TypeLists :
       result' = [projectTypes |-> projectTypes,
                  tasks |-> getTasksForProjectTypes(registry, projectTypes)]
  /\ UNCHANGED <<pc, dupVars, cmpVars, fileVars, runVars, taskVars>>

NextRegistry == ClearTasks \/ RegisterTask \/ GetTasksByProjectType

SpecRegistry == InitRegistry /\ [][NextRegistry]_vars

(***************************************************************************)
(* TaskRunner.runTasks, OptimizationManager.runAllTasks / runSpecificTasks *)
(***************************************************************************)

\* the value undefined, and the value null of a task function
undefined == [value |-> "undefined"]

\* a value whose properties cannot be read: undefined or null
IsNullish(v) == "value" \in DOMAIN v

\* error.message of the TypeError of reading a property of such a value
TypeErrorMessage == "Cannot read properties of undefined"

\* what await taskFn(...) returns
Returned(taskFn) ==
  CASE taskFn = "succeeds" -> [success |-> TRUE]
    [] taskFn = "fails" -> [success |-> FALSE, error |-> "failed"]
    [] taskFn = "returnsEmpty" -> [message |-> "done"]
    [] taskFn = "returnsNull" -> [value |-> "null"]
    [] OTHER -> undefined

\* what await taskFn(...) throws: an Error, or nothing at all as the promise
\* of reject() does
Thrown(taskFn) == IF taskFn = "throws" THEN [message |-> "boom"] ELSE undefined

\* this.results of a new TaskRunner
NewResults ==
  [success |-> TRUE, tasksRun |-> 0, tasksSucceeded |-> 0, tasksFailed |-> 0,
   taskResults |-> <<>>]

\* result.success is truthy
Succeeded(taskResult) == "success" \in DOMAIN taskResult /\ taskResult.success

\* recordTaskResult(taskId, result): this.results afterwards, and whether
\* reading result.success threw
recordTaskResult(res, taskId, taskResult) ==
  LET counted == [res EXCEPT !.tasksRun = @ + 1]
  IN IF IsNullish(taskResult) THEN [threw |-> TRUE, results |-> counted]
     ELSE [threw |-> FALSE,
           results |->
             IF Succeeded(taskResult)
             THEN [counted EXCEPT !.tasksSucceeded = @ + 1,
                                  !.taskResults = Put(@, taskId, taskResult)]
             ELSE [counted EXCEPT !.tasksFailed = @ + 1,
                                  !.success = FALSE,
                                  !.taskResults = Put(@, taskId, taskResult)]]

\* the catch clause of runTask: it reads error.message, then records
Caught(res, taskId, error) ==
  IF IsNullish(error) THEN [threw |-> TRUE, results |-> res, value |-> undefined]
  ELSE [threw |-> FALSE,
        results |-> recordTaskResult(res, taskId,
                                     [success |-> FALSE, error |-> error.message]).results,
        value |-> undefined]

\* runTask(task): this.results afterwards, the value returned, and whether
\* the call threw
runTask(res, task) ==
  IF task.taskFn = "notAFunction"
  THEN [threw |-> FALSE,
        results |-> recordTaskResult(res, task.id,
                                     [success |-> FALSE,
                                      error |-> "Invalid task function"]).results,
        value |-> undefined]
  ELSE IF task.taskFn \in {"throws", "rejects"}
  THEN Caught(res, task.id, Thrown(task.taskFn))
  ELSE LET taskResult == Returned(task.taskFn)
           recorded == recordTaskResult(res, task.id, taskResult)
       IN IF recorded.threw
          THEN Caught(recorded.results, task.id, [message |-> TypeErrorMessage])
          ELSE [threw |-> FALSE, results |-> recorded.results, value |-> taskResult]

\* longest list of tasks
MaxTasks == 2

\* the tasks to run: two ids, and a function of every kind
RunnableTasks ==
  {Task(id, fn, <<>>) :
     id \in {"a", "b"},
     fn \in {"succeeds", "fails", "returnsEmpty", "returnsNull", "returnsUndefined",
             "throws", "rejects", "notAFunction"}}

\* the lists of at most n tasks
RECURSIVE TaskLists(_)
TaskLists(n) ==
  IF n = 0 THEN {<<>>}
  ELSE LET shorter == TaskLists(n - 1)
       IN shorter \cup {Append(l, t) : l \in shorter, t \in RunnableTasks}

\* the registry after clearTasks and registerTask of every task of the list
RECURSIVE RegisterAll(_)
RegisterAll(list) ==
  IF list = <<>> THEN clearTasks(ConstructedRegistry)
  ELSE registerTask(RegisterAll(SubSeq(list, 1, Len(list) - 1)), list[Len(list)])

\* the calls: runTasks(tasks) of a new TaskRunner, and runAllTasks(createBackup)
\* and runSpecificTasks(taskIds, createBackup) of a new OptimizationManager
\* over the registered tasks; backupFails tells whether createBackup() throws
MethodCalls ==
  {[method |-> "runTasks", taskIds |-> <<>>, createBackup |-> TRUE, backupFails |-> b] :
     b \in BOOLEAN}
  \cup {[method |-> "runAllTasks", taskIds |-> <<>>, createBackup |-> c, backupFails |-> b] :
          c, b \in BOOLEAN}
  \cup {[method |-> "runSpecificTasks", taskIds |-> ids, createBackup |-> TRUE,
         backupFails |-> b] :
          ids \in {<<>>, <<"a">>, <<"b", "a">>, <<"c">>}, b \in BOOLEAN}

InitTasks ==
  /\ pc = "called"
  /\ call \in MethodCalls
  /\ \E list \in TaskLists(MaxTasks) :
       /\ registry = RegisterAll(list)
       /\ tasks = IF call.method = "runTasks" THEN list ELSE <<>>
  /\ taskIndex = 0
  /\ results = NewResults
  /\ managerResults = <<>>
  /\ calls = <<>>
  /\ result = None
  /\ allBlocks = <<>>
  /\ similarityThreshold = DefaultThreshold
  /\ i = 0
  /\ j = 0
  /\ instances = <<>>
  /\ similarBlockIndices = <<>>
  /\ processedBlocks = {}
  /\ duplications = <<>>
  /\ block1 = None
  /\ block2 = None
  /\ sourceFiles = <<>>
  /\ fileIndex = 0
  /\ minBlockSize = DefaultMinBlockSize
  /\ IdleRun

\* runTasks and runSpecificTasks: nothing to run
NoTasksSpecified ==
  /\ pc = "called"
  /\ \/ call.method = "runTasks" /\ tasks = <<>>
     \/ call.method = "runSpecificTasks" /\ call.taskIds = <<>>
  /\ result' = [success |-> FALSE, error |-> "No tasks specified"]
  /\ pc' = "returned"
  /\ UNCHANGED <<dupVars, cmpVars, fileVars, runVars, taskVars>>

\* runTasks: createBackup() in a try whose catch goes on without a backup
RunTasksStart ==
  /\ pc = "called"
  /\ call.method = "runTasks"
  /\ tasks # <<>>
  /\ taskIndex' = 1
  /\ pc' = "loop"
  /\ UNCHANGED <<dupVars, result, cmpVars, fileVars, runVars, registry, call, tasks,
                 results, managerResults, calls>>

\* runTasks: await this.runTask(task); an error runTask throws ends runTasks
RunTasksStep ==
  /\ pc = "loop"
  /\ call.method = "runTasks"
  /\ taskIndex <= Len(tasks)
  /\ LET ran == runTask(results, tasks[taskIndex])
     IN /\ results' = ran.results
        /\ calls' = Append(calls, tasks[taskIndex])
        /\ IF ran.threw
           THEN pc' = "rejected" /\ taskIndex' = taskIndex
           ELSE pc' = pc /\ taskIndex' = taskIndex + 1
  /\ UNCHANGED <<dupVars, result, cmpVars, fileVars, runVars, registry, call, tasks,
                 managerResults>>

\* runTasks: return this.results
RunTasksReturn ==
  /\ pc = "loop"
  /\ call.method = "runTasks"
  /\ taskIndex > Len(tasks)
  /\ result' = results
  /\ pc' = "returned"
  /\ UNCHANGED <<dupVars, cmpVars, fileVars, runVars, taskVars>>

\* the manager is in runAllTasks, or in runSpecificTasks with ids
InManager ==
  \/ call.method = "runAllTasks"
  \/ call.method = "runSpecificTasks" /\ call.taskIds # <<>>

\* runAllTasks and runSpecificTasks: createBackup() throws
BackupFails ==
  /\ pc = "called"
  /\ InManager
  /\ call.createBackup
  /\ call.backupFails
  /\ result' = [success |-> FALSE, error |-> "Failed to create backup"]
  /\ pc' = "returned"
  /\ UNCHANGED <<dupVars, cmpVars, fileVars, runVars, taskVars>>

\* tasks of runAllTasks, tasksToRun of runSpecificTasks; the registered
\* tasks are common ones, which every list of project types gets
TasksToRun ==
  LET allTasks == getTasksForProjectTypes(registry, <<>>)
  IN IF call.method = "runAllTasks" THEN allTasks
     ELSE SelectSeq(allTasks,
                    LAMBDA task : \E k \in 1..Len(call.taskIds) : call.taskIds[k] = task.id)

\* runAllTasks and runSpecificTasks after the backup: the tasks, and the
\* return when there is none
GetTasks ==
  /\ pc = "called"
  /\ InManager
  /\ ~(call.createBackup /\ call.backupFails)
  /\ tasks' = TasksToRun
  /\ IF TasksToRun # <<>>
     THEN /\ taskIndex' = 1
          /\ pc' = "loop"
          /\ result' = result
     ELSE /\ taskIndex' = taskIndex
          /\ pc' = "returned"
          /\ result' = IF call.method = "runAllTasks"
                       THEN [success |-> TRUE, results |-> <<>>,
                             message |-> "No tasks available"]
                       ELSE [success |-> FALSE, error |-> "No matching tasks found"]
  /\ UNCHANGED <<dupVars, cmpVars, fileVars, runVars, registry, call, results,
                 managerResults, calls>>

\* the body of the loop of runAllTasks and runSpecificTasks: the try reads
\* taskResult.success, the catch stores the error
ManagerStep ==
  /\ pc = "loop"
  /\ InManager
  /\ taskIndex <= Len(tasks)
  /\ LET task == tasks[taskIndex]
         ran == runTask(results, task)
     IN /\ results' = ran.results
        /\ calls' = Append(calls, task)
        /\ managerResults' =
             IF ran.threw \/ IsNullish(ran.value)
             THEN Put(managerResults, task.id,
                      [success |-> FALSE, error |-> TypeErrorMessage])
             ELSE Put(managerResults, task.id, ran.value)
  /\ taskIndex' = taskIndex + 1
  /\ UNCHANGED <<pc, dupVars, result, cmpVars, fileVars, runVars, registry, call, tasks>>

\* runAllTasks and runSpecificTasks: the results are returned with the path
\* of the saved report, which is null when saving failed
ManagerReturn ==
  /\ pc = "loop"
  /\ InManager
  /\ taskIndex > Len(tasks)
  /\ \E reportPath \in {".aiguardian/reports/optimization-report.txt", null} :
       result' = [success |-> TRUE, results |-> managerResults, reportPath |-> reportPath]
  /\ pc' = "returned"
  /\ UNCHANGED <<dupVars, cmpVars, fileVars, runVars, taskVars>>

NextTasks ==
  \/ NoTasksSpecified
  \/ RunTasksStart
  \/ RunTasksStep
  \/ RunTasksReturn
  \/ BackupFails
  \/ GetTasks
  \/ ManagerStep
  \/ ManagerReturn

SpecTasks == InitTasks /\ [][NextTasks]_vars

(***************************************************************************)
(* Properties of findDuplications                                          *)
(***************************************************************************)

\* the indices of the blocks of a cluster
IndexSet(d) == {d.indices[k] : k \in 1..Len(d.indices)}

PairwiseDisjoint(ds) ==
  \A a, b \in 1..Len(ds) : a # b => IndexSet(ds[a]) \cap IndexSet(ds[b]) = {}

\* C1: the clusters are pairwise disjoint (no extraction index is in two
\* clusters, in the discovered list and in the returned list), the claimed
\* indices are exactly the indices of the clusters, and neither the anchor
\* nor any block of the cluster being built is an already claimed block.
C1_ClustersDisjoint ==
  /\ PairwiseDisjoint(duplications)
  /\ pc = "done" => PairwiseDisjoint(result)
  /\ processedBlocks = UNION {IndexSet(duplications[k]) : k \in 1..Len(duplications)}
  /\ pc = "inner" =>
       \A k \in 1..Len(similarBlockIndices) : similarBlockIndices[k] \notin processedBlocks

\* two clusters were returned, the later-found one after skipping claimed blocks
C1_Witness ==
  /\ pc = "done"
  /\ Len(result) >= 2
  /\ \E a, b \in 1..Len(duplications) :
       a < b /\ \E m \in IndexSet(duplications[a]) : m > duplications[b].indices[1]

\* the line ranges share a line
RangesIntersect(b1, b2) ==
  (b1.startLine..b1.endLine) \cap (b2.startLine..b2.endLine) # {}

\* C2: in every returned cluster no two instances are the same block, and no
\* two instances are blocks of one file with intersecting line ranges.
C2_SelfExclusion ==
  pc = "done" =>
    \A c \in 1..Len(result) :
      \A p, q \in 1..Len(result[c].instances) :
        p # q =>
          /\ result[c].indices[p] # result[c].indices[q]
          /\ ~(/\ result[c].instances[p].file = result[c].instances[q].file
               /\ RangesIntersect(result[c].instances[p], result[c].instances[q]))

\* the candidate at j passes both skip tests and is about to be compared
ComparingCandidate ==
  /\ pc = "inner"
  /\ j <= Len(allBlocks)
  /\ j \notin processedBlocks
  /\ ~(5 * Abs(LineCount(allBlocks[i]) - LineCount(allBlocks[j]))
         > Max(LineCount(allBlocks[i]), LineCount(allBlocks[j])))

ScoreAtLeast(b1, b2, threshold) ==
  LET score == compareBlocks(b1, b2)
  IN score.num * threshold.den >= threshold.num * score.den

\* C6: a compared candidate joins the anchor's cluster iff its score is at
\* least the threshold (a score equal to the threshold is included), and every
\* non-anchor instance of every cluster scores at least the threshold against
\* the anchor.
C6_ThresholdBoundary ==
  /\ [][ComparingCandidate =>
          /\ (ScoreAtLeast(allBlocks[i], allBlocks[j], similarityThreshold)
                => similarBlockIndices' = Append(similarBlockIndices, j))
          /\ (~ScoreAtLeast(allBlocks[i], allBlocks[j], similarityThreshold)
                => similarBlockIndices' = similarBlockIndices)]_vars
  /\ [](\A c \in 1..Len(duplications) :
          \A k \in 2..Len(duplications[c].instances) :
            ScoreAtLeast(duplications[c].instances[1], duplications[c].instances[k],
                         similarityThreshold))

\* a returned cluster holds an instance whose score equals the threshold
C6_Witness ==
  /\ pc = "done"
  /\ \E c \in 1..Len(result) :
       \E k \in 2..Len(result[c].instances) :
         compareBlocks(result[c].instances[1], result[c].instances[k]) = similarityThreshold

\* the line count of b differs from the anchor's by more than 20% of the larger
DiffersByMoreThanFifth(anchor, b) ==
  5 * Abs(LineCount(anchor) - LineCount(b)) > Max(LineCount(anchor), LineCount(b))

\* C7: no instance of a cluster (built or being built) differs in line count
\* from the anchor by more than 20% of the larger count, and no cluster holds
\* both a 5-line and a 50-line block.
C7_SizePreFilter ==
  /\ \A k \in 2..Len(instances) : ~DiffersByMoreThanFifth(instances[1], instances[k])
  /\ \A c \in 1..Len(duplications) :
       /\ \A k \in 2..Len(duplications[c].instances) :
            ~DiffersByMoreThanFifth(duplications[c].instances[1], duplications[c].instances[k])
       /\ ~\E p, q \in 1..Len(duplications[c].instances) :
            /\ LineCount(duplications[c].instances[p]) = 5
            /\ LineCount(duplications[c].instances[q]) = 50

\* a 5-line anchor met an unclaimed 50-line block with the same normal form
\* in a place where they do not overlap, and the run ended with the 50-line
\* block outside the anchor's cluster
C7_Witness ==
  /\ pc = "done"
  /\ \E c \in 1..Len(duplications) :
       \E q \in 1..Len(allBlocks) :
         /\ LineCount(duplications[c].instances[1]) = 5
         /\ LineCount(allBlocks[q]) = 50
         /\ q > duplications[c].indices[1]
         /\ q \notin processedBlocks
         /\ compareBlocks(duplications[c].instances[1], allBlocks[q]) = Rat(1, 1)

C9_SortedResult ==
  pc = "done" =>
    \A k \in 1..(Len(result) - 1) :
      \/ Len(result[k].instances) > Len(result[k + 1].instances)
      \/ /\ Len(result[k].instances) = Len(result[k + 1].instances)
         /\ result[k].similarity.num * result[k + 1].similarity.den
              >= result[k + 1].similarity.num * result[k].similarity.den

\* the sort moved a larger cluster in front of a smaller one found earlier
C9_Witness ==
  /\ pc = "done"
  /\ Len(result) >= 2
  /\ Len(duplications[1].instances) < Len(duplications[2].instances)
  /\ result[1] = duplications[2]

(***************************************************************************)
(* Properties of compareBlocks                                             *)
(***************************************************************************)

\* C4: the score is a defined number in [0,1]: 0 for blocks of one file with
\* intersecting ranges, else 1 for equal normal forms, else the Jaccard index
\* of the token sets; the denominator is never 0.
C4_ScoreDefined ==
  pc = "done" =>
    LET t1 == TokenSet(normalizeContent(block1.content))
        t2 == TokenSet(normalizeContent(block2.content))
    IN /\ result.den > 0
       /\ 0 <= result.num
       /\ result.num <= result.den
       /\ IF block1.file = block2.file /\ RangesIntersect(block1, block2)
          THEN result.num = 0
          ELSE IF normalizeContent(block1.content) = normalizeContent(block2.content)
          THEN result.num = result.den
          ELSE result.num * Cardinality(t1 \cup t2) = Cardinality(t1 \cap t2) * result.den

\* two blocks of different files, both with an empty normal form, were scored
C4_Witness ==
  /\ pc = "done"
  /\ block1.file # block2.file
  /\ normalizeContent(block1.content) = ""
  /\ normalizeContent(block2.content) = ""
  /\ block1.content # block2.content
  /\ result = Rat(1, 1)

\* C5: compareBlocks(A, B) = compareBlocks(B, A).
C5_Symmetric ==
  pc = "done" => result = compareBlocks(block2, block1)

\* a same-file pair whose second block starts first, and a pair of different
\* normal forms with a score strictly between 0 and 1, were scored
C5_Witness ==
  /\ pc = "done"
  /\ block1.file = block2.file
  /\ block2.startLine < block1.startLine
  /\ block2.endLine >= block1.startLine
  /\ normalizeContent(block1.content) # normalizeContent(block2.content)
  /\ result = Rat(0, 1)

(***************************************************************************)
(* Properties of findCodeBlocks                                            *)
(***************************************************************************)

\* number of lines of a text
LinesOf(text) == Len(Split(text, "\n"))

\* C10: every block of findCodeBlocks has startLine <= endLine, a line span
\* of at least minBlockSize and a content of at least minBlockSize lines; a
\* file of fewer lines than minBlockSize yields no block.
C10_MinimumSize ==
  pc = "done" =>
    /\ \A k \in 1..Len(result) :
         /\ result[k].startLine <= result[k].endLine
         /\ result[k].endLine - result[k].startLine + 1 >= minBlockSize
         /\ LinesOf(result[k].content) >= minBlockSize
    /\ LinesOf(sourceFiles[1].content) < minBlockSize => result = <<>>

\* both scans emitted a block, one of them of exactly minBlockSize lines
\* where a run one line shorter would not have qualified
C10_Witness ==
  /\ pc = "done"
  /\ minBlockSize >= 2
  /\ Len(result) >= 2
  /\ \E k \in 1..Len(result) : LinesOf(result[k].content) = minBlockSize

(***************************************************************************)
(* Properties of the detector on whole files                               *)
(***************************************************************************)

\* the project holds exactly two files, each with one scenario function
IsScenario1 ==
  /\ Len(sourceFiles) = 2
  /\ sourceFiles[1] \in ScenarioFiles
  /\ sourceFiles[2] \in ScenarioFiles

\* C3: on two files that each hold one function of at least minBlockSize
\* lines, differing only in identifiers of one bucket and in the first
\* string literal, the result is exactly one cluster of exactly 2 instances
\* with similarity 1.
C3_Scenario1 ==
  pc = "done" /\ IsScenario1 =>
    /\ Len(result) = 1
    /\ Len(result[1].instances) = 2
    /\ result[1].similarity = Rat(1, 1)

(***************************************************************************)
(* Properties of normalizeContent                                          *)
(***************************************************************************)

\* C11: normalizing a normal form gives the same normal form again:
\* normalizeContent(normalizeContent(s)) = normalizeContent(s) for every
\* text s, names of the accessor, eventHandler and booleanVar buckets and a
\* masked string literal included.
C11_Idempotent ==
  pc = "done" => result[2] = result[1]

(***************************************************************************)
(* Properties of detectDuplicateCode                                       *)
(***************************************************************************)

\* the project path of the call is a string
PathIsString == ProjectPathOf(invocation).type = "string"

\* mkdir of the report directory or writeFile of the report was rejected
ReportFailed == \E f \in faults : f.op \in {"mkdir", "writeFile"}

\* C12: when creating the report directory or writing the report file
\* fails, detectDuplicateCode still returns success true with the computed
\* metrics and duplications, and reportPath null.
C12_ReportFailureTolerated ==
  pc = "returned" /\ ReportFailed =>
    /\ output.success
    /\ output = [SuccessResult(result, ProjectDir) EXCEPT !.reportPath = null]

\* the walk ended without an error and pushed no file
NoSourceFileMatched ==
  /\ PathIsString
  /\ fsOps # <<>>
  /\ sourceFiles = <<>>
  /\ ~\E f \in faults : f.op = "readdir"

\* findDuplications returned the empty list
NoClusterFormed ==
  /\ result = <<>>
  /\ \E k \in 1..Len(fsOps) : fsOps[k].op = "mkdir"

\* C13: a run that finds no duplication, for want of matching source files
\* or of clusters, returns success true with the three metrics 0 and
\* duplications = [] present in the result, and a report file is written
\* that states that no duplicate code blocks were found.
C13_NoDuplication ==
  pc = "returned" /\ (NoSourceFileMatched \/ NoClusterFormed) =>
    /\ output.success
    /\ output.metrics = [duplicateBlocks |-> 0, affectedFiles |-> 0,
                         potentialLinesReduced |-> 0]
    /\ "duplications" \in DOMAIN output
    /\ output.duplications = <<>>
    /\ \E k \in 1..Len(disk.reportFile) :
         Includes(disk.reportFile[k], "No duplicate code blocks found")

\* C14: when the project path, given positionally or in an options object,
\* is not a string, no file system call is ever made and the call returns
\* success false with the error 'Project path must be a string'.
C14_InvalidInvocation ==
  ~PathIsString =>
    /\ fsOps = <<>>
    /\ disk.reportFile = <<>>
    /\ ~disk.reportsDir
    /\ pc = "returned" =>
         output = [success |-> FALSE, error |-> "Project path must be a string"]

C14_Witness ==
  /\ pc = "returned"
  /\ IsOptionsObject(invocation)
  /\ ProjectPathOf(invocation).type = "number"
  /\ ~output.success
  /\ output.error = "Project path must be a string"

\* the blocks of the collected files from the k-th on whose readFile was served
RECURSIVE ReadableBlocks(_)
ReadableBlocks(k) ==
  IF k > Len(sourceFiles) THEN <<>>
  ELSE (IF \E f \in faults : f.op = "readFile" /\ f.path = sourceFiles[k].path
        THEN <<>>
        ELSE findCodeBlocks(sourceFiles[k].path, sourceFiles[k].content, minBlockSize))
       \o ReadableBlocks(k + 1)

\* C15: when reading a collected source file fails, the run still returns
\* success true; every collected file was read in order, and the blocks
\* given to findDuplications are exactly those of the files read.
C15_ReadIsolation ==
  pc = "returned" /\ (\E f \in faults : f.op = "readFile") =>
    /\ output.success
    /\ SelectSeq(fsOps, LAMBDA o : o.op = "readFile")
         = [k \in 1..Len(sourceFiles) |-> [op |-> "readFile", path |-> sourceFiles[k].path]]
    /\ allBlocks = ReadableBlocks(1)

\* C16: when listing a subdirectory fails during the walk, the run does not
\* fail, and every matching file of the project directory itself is among
\* the collected files.
C16_CollectorIsolation ==
  pc = "returned" /\ PathIsString
  /\ (\E f \in faults : f.op = "readdir" /\ f.path # ProjectDir) =>
    /\ output.success
    /\ \A k \in 1..Len(disk.dirs[ProjectDir]) :
         LET entry == disk.dirs[ProjectDir][k]
         IN ~entry.isDirectory
            /\ MatchesExtension(entry.name, getFileExtensions(ProjectTypesOf(invocation)))
            => \E m \in 1..Len(sourceFiles) :
                 sourceFiles[m].path = PathJoin(ProjectDir, entry.name)

(***************************************************************************)
(* Properties of the metrics and of the reports                            *)
(***************************************************************************)

\* the sum of a list of numbers
RECURSIVE Total(_)
Total(numbers) == IF numbers = <<>> THEN 0 ELSE Head(numbers) + Total(Tail(numbers))

\* the call returned a result with at least one cluster
HasClusters ==
  /\ output # None
  /\ output.success
  /\ "duplications" \in DOMAIN output
  /\ Len(output.duplications) > 0

\* C17: in a successful result with clusters, duplicateBlocks is the number
\* of clusters, affectedFiles the number of distinct files over all
\* instances, avgLines of a cluster the floor of the mean line count of its
\* instances, its potentialLinesReduced avgLines * (instance count - 1), and
\* metrics.potentialLinesReduced the sum of the clusters' values.
C17_Metrics ==
  pc = "returned" /\ HasClusters =>
    LET dups == output.duplications
        n(c) == Len(dups[c].instances)
        lines(c) == Total([k \in 1..n(c) |->
                             dups[c].instances[k].endLine
                             - dups[c].instances[k].startLine + 1])
    IN /\ output.metrics.duplicateBlocks = Len(dups)
       /\ output.metrics.affectedFiles =
            Cardinality(UNION {{dups[c].instances[k].file : k \in 1..n(c)} :
                                 c \in 1..Len(dups)})
       /\ \A c \in 1..Len(dups) :
            /\ dups[c].avgLines * n(c) <= lines(c)
            /\ lines(c) < (dups[c].avgLines + 1) * n(c)
            /\ dups[c].potentialLinesReduced = dups[c].avgLines * (n(c) - 1)
       /\ output.metrics.potentialLinesReduced =
            Total([c \in 1..Len(dups) |-> dups[c].potentialLinesReduced])

\* two clusters, one whose mean line count is not whole, and a file with
\* more than one instance
C17_Witness ==
  /\ pc = "returned"
  /\ HasClusters
  /\ Len(output.duplications) = 2
  /\ \E c \in 1..2 :
       LET d == output.duplications[c]
       IN d.avgLines * Len(d.instances)
            < Total([k \in 1..Len(d.instances) |->
                       d.instances[k].endLine - d.instances[k].startLine + 1])
  /\ output.metrics.affectedFiles
       < Len(output.duplications[1].instances) + Len(output.duplications[2].instances)

\* the severities whose recommendation message is in the written report
EmittedSeverities ==
  {s \in {"HIGH", "MODERATE", "LOW", "NO"} :
     \E k \in 1..Len(disk.reportFile) : disk.reportFile[k] = SeverityTitle(s)}

\* C18: the written report holds exactly one of the four recommendation
\* messages, chosen by the total T of potentialLinesReduced: HIGH if
\* T > 100, MODERATE if 50 < T <= 100, LOW if 0 < T <= 50, the fourth if T = 0.
C18_Severity ==
  pc = "returned" /\ output.success /\ disk.reportFile # <<>> =>
    LET T == output.metrics.potentialLinesReduced
    IN EmittedSeverities =
         {IF T > 100 THEN "HIGH"
          ELSE IF 50 < T /\ T <= 100 THEN "MODERATE"
          ELSE IF 0 < T /\ T <= 50 THEN "LOW"
          ELSE "NO"}

\* the suggestions of the lines of a report, in order
SuggestionsOf(lines) ==
  LET hits == SelectSeq(lines, LAMBDA l : Includes(l, "Suggestion: "))
  IN [k \in 1..Len(hits) |->
        From(hits[k], IndexOf(hits[k], "Suggestion: ", 1) + Len("Suggestion: "))]

\* the suggestion of the decision table for a cluster of the result
TableSuggestion(d) ==
  IF Len(d.instances) >= 3
  THEN "Consider extracting this code into a shared utility function."
  ELSE IF 10 * d.similarity.num >= 9 * d.similarity.den
       THEN "Extract this code into a parameterized function to avoid duplication."
       ELSE "Review these similar code blocks for potential refactoring."

\* C19: the detailed report and the optimization report both give each
\* cluster the suggestion of the table: shared utility for 3 instances or
\* more, whatever the similarity; else parameterized function for a
\* similarity of 0.9 or more; else manual review.
C19_Suggestion ==
  pc = "reported" /\ HasClusters =>
    LET expected == [c \in 1..Len(output.duplications) |->
                       TableSuggestion(output.duplications[c])]
    IN /\ SuggestionsOf(reportContent) = expected
       /\ SuggestionsOf(report) = expected

\* a cluster of three instances with a similarity of 0.9 or more, given the
\* shared-utility suggestion in both reports
C19_Witness ==
  /\ pc = "reported"
  /\ HasClusters
  /\ \E c \in 1..Len(output.duplications) :
       /\ Len(output.duplications[c].instances) = 3
       /\ RatGeq(output.duplications[c].similarity, Rat(9, 10))
       /\ SuggestionsOf(report)[c]
            = "Consider extracting this code into a shared utility function."
       /\ SuggestionsOf(reportContent)[c]
            = "Consider extracting this code into a shared utility function."

\* C20: the second of two calls with the same arguments on the same tree
\* returns what the first returned: the same clusters, instances,
\* similarities and metrics.
C20_Deterministic ==
  pc = "returned" /\ runs = 2 => output = firstOutput

\* a second call that returned clusters
C20_Witness ==
  /\ pc = "returned"
  /\ runs = 2
  /\ HasClusters

(***************************************************************************)
(* Properties of the two scans of findCodeBlocks                           *)
(***************************************************************************)

\* the lines of the file, and their number
FileLines == Split(sourceFiles[1].content, "\n")

\* the k-th line is not blank
NonBlank(k) == Trim(FileLines[k]) # ""

\* the indentation of the k-th line
Indent(k) == SkipWhile(FileLines[k], 1, WhiteSpace) - 1

\* the blocks of the function scan and of the indentation scan in the result
FunctionBlocks ==
  SubSeq(result, 1,
         Len(FunctionScan(FunctionScanStart, sourceFiles[1].path, FileLines, 0,
                          minBlockSize).blocks))

IndentBlocks == SubSeq(result, Len(FunctionBlocks) + 1, Len(result))

\* the non-blank lines where the indentation is smaller than on the
\* non-blank line before, and the first non-blank line
StartsByPreviousLine ==
  {k \in 1..Len(FileLines) :
     /\ NonBlank(k)
     /\ \A a \in 1..(k - 1) :
          NonBlank(a) /\ (\A b \in (a + 1)..(k - 1) : ~NonBlank(b)) => Indent(k) < Indent(a)}

\* the non-blank lines where the indentation is smaller than on the first
\* line of the run they end, and the first non-blank line: a run starts on
\* the smallest indentation so far
StartsByRunStart ==
  {k \in 1..Len(FileLines) :
     NonBlank(k) /\ \A a \in 1..(k - 1) : NonBlank(a) => Indent(k) < Indent(a)}

\* the last line before the next start after s, the last line of the file
\* if there is none
RunEnd(starts, s) ==
  IF \E t \in starts : t > s
  THEN (CHOOSE t \in starts : t > s /\ \A u \in starts : u > s => t <= u) - 1
  ELSE Len(FileLines)

\* the non-blank lines of the run that starts at s, trimmed
RunContent(starts, s) ==
  LET numbers == [k \in 1..(RunEnd(starts, s) - s + 1) |-> s + k - 1]
      kept == SelectSeq(numbers, LAMBDA k : NonBlank(k))
  IN [k \in 1..Len(kept) |-> Trim(FileLines[kept[k]])]

\* the blocks of the runs that start at the lines of starts and have at
\* least minBlockSize lines
RunBlocks(starts) ==
  {Block(sourceFiles[1].path, s, RunEnd(starts, s), Join(RunContent(starts, s), "\n")) :
     s \in {t \in starts : Len(RunContent(starts, t)) >= minBlockSize}}

\* the blocks of the indentation scan are those of runs, in file order
IndentBlocksAre(starts) ==
  /\ {IndentBlocks[k] : k \in 1..Len(IndentBlocks)} = RunBlocks(starts)
  /\ \A k \in 1..(Len(IndentBlocks) - 1) :
       IndentBlocks[k].startLine < IndentBlocks[k + 1].startLine

\* C23 as stated: the indentation scan starts a new block at the first
\* non-blank line and at every non-blank line whose indentation is smaller
\* than that of the previous non-blank line, and emits the run that ends
\* there iff it has at least minBlockSize lines.
C23_RunsByPreviousLine ==
  pc = "done" => IndentBlocksAre(StartsByPreviousLine)

\* C23: the indentation scan starts a new block at the first non-blank line
\* and at every non-blank line whose indentation is smaller than that of the
\* first line of the current run, and emits each run, the last one
\* included, iff it has at least minBlockSize lines.
C23_RunsByRunStart ==
  pc = "done" => IndentBlocksAre(StartsByRunStart)

\* a line less indented than the line before it, yet not less than the
\* first line of its run, inside an emitted block
C23_Witness ==
  /\ pc = "done"
  /\ StartsByPreviousLine # StartsByRunStart
  /\ \E k \in 1..Len(IndentBlocks), l \in StartsByPreviousLine \ StartsByRunStart :
       IndentBlocks[k].startLine < l /\ l <= IndentBlocks[k].endLine

\* the k-th line is scanned by the function scan: neither blank nor a comment
Scanned(k) == ~IsBlankOrComment(Trim(FileLines[k]))

\* the brace depth after line e of a function that starts at line s: the
\* opening minus the closing braces of the scanned lines s..e
RECURSIVE Depth(_, _)
Depth(s, e) ==
  IF e < s THEN 0
  ELSE Depth(s, e - 1) + (IF Scanned(e) THEN BraceDelta(Trim(FileLines[e])) ELSE 0)

\* the scanned lines s..e, trimmed
ScannedContent(s, e) ==
  LET kept == SelectSeq([k \in 1..(e - s + 1) |-> s + k - 1], LAMBDA k : Scanned(k))
  IN [k \in 1..Len(kept) |-> Trim(FileLines[kept[k]])]

\* the function blocks from line k on, when a function that starts at line s
\* is closed at the first scanned line from s on where the depth is zero
RECURSIVE BlocksClosedAtZeroDepth(_)
BlocksClosedAtZeroDepth(k) ==
  LET n == Len(FileLines)
      starts == {s \in k..n : Scanned(s) /\ IsFunctionStart(Trim(FileLines[s]))}
      s == CHOOSE t \in starts : \A u \in starts : t <= u
      ends == {e \in s..n : Scanned(e) /\ Depth(s, e) = 0}
      e == CHOOSE t \in ends : \A u \in ends : t <= u
  IN IF starts = {} \/ ends = {} THEN <<>>
     ELSE (IF Len(ScannedContent(s, e)) >= minBlockSize
           THEN <<Block(sourceFiles[1].path, s, e, Join(ScannedContent(s, e), "\n"))>>
           ELSE <<>>)
          \o BlocksClosedAtZeroDepth(e + 1)

\* C24: a function block is closed at the earliest scanned line, its start
\* line included, where the braces opened since the start line are all
\* closed; it is emitted iff it has at least minBlockSize lines, and the
\* scan goes on behind it.
C24_ClosedAtZeroDepth ==
  pc = "done" => FunctionBlocks = BlocksClosedAtZeroDepth(1)

\* line s is taken as a function start: the scan is in no function there
Recognised(s) ==
  /\ Scanned(s)
  /\ IsFunctionStart(Trim(FileLines[s]))
  /\ ~FunctionScan(FunctionScanStart, sourceFiles[1].path, SubSeq(FileLines, 1, s - 1), 0,
                   minBlockSize).inFunction

\* the depth of the function that starts at line s is zero on no later
\* scanned line
NeverClosed(s) ==
  \A e \in (s + 1)..Len(FileLines) : Scanned(e) => Depth(s, e) # 0

\* C25: when the brace depth of a function never returns to zero before the
\* end of the file, findCodeBlocks returns all the same, with no function
\* block for that start or for a later line, and with the blocks of the
\* indentation scan as they are without the function scan.
C25_UnbalancedBraces ==
  pc = "done" =>
    \A s \in 1..Len(FileLines) :
      Recognised(s) /\ NeverClosed(s) =>
        /\ \A k \in 1..Len(FunctionBlocks) : FunctionBlocks[k].endLine < s
        /\ IndentBlocksAre(StartsByRunStart)

\* a function left open, with a function start behind it and a block of the
\* indentation scan
C25_Witness ==
  /\ pc = "done"
  /\ IndentBlocks # <<>>
  /\ \E s \in 1..Len(FileLines) :
       /\ Recognised(s)
       /\ NeverClosed(s)
       /\ \E t \in (s + 1)..Len(FileLines) : IsFunctionStart(Trim(FileLines[t]))

\* C26: a block of the indentation scan starts on a line that is neither
\* blank nor a comment, its content is made of the lines of its span that
\* are neither, and its startLine and endLine are line numbers of the file,
\* so that its span has at least as many lines as its content.
C26_CommentsAndBlanksSkipped ==
  pc = "done" =>
    \A k \in 1..Len(IndentBlocks) :
      LET b == IndentBlocks[k]
      IN /\ 1 <= b.startLine
         /\ b.startLine <= b.endLine
         /\ b.endLine <= Len(FileLines)
         /\ Scanned(b.startLine)
         /\ Split(b.content, "\n") = ScannedContent(b.startLine, b.endLine)
         /\ b.endLine - b.startLine + 1 >= LinesOf(b.content)


(***************************************************************************)
(* Properties of the string-literal pass of normalizeContent               *)
(***************************************************************************)

\* the words of a string literal, separated by single spaces
WordsIn(literal) == Len(Split(literal, " "))

\* the two blocks are the same call but for the text of the first literal
DifferInFirstLiteral ==
  \E f1, f2 \in FirstLiterals, l \in LaterLiterals :
    /\ f1 # f2
    /\ block1.content = TwoLiteralCall(f1, l)
    /\ block2.content = TwoLiteralCall(f2, l)

\* the two blocks are the same call but for the number of words of the
\* later literal
DifferInLaterWords ==
  \E f \in FirstLiterals, l1, l2 \in LaterLiterals :
    /\ WordsIn(l1) # WordsIn(l2)
    /\ block1.content = TwoLiteralCall(f, l1)
    /\ block2.content = TwoLiteralCall(f, l2)

\* C27: only the first string literal is masked: two blocks that differ
\* only in the text of their first string literal have the same normal form,
\* and two blocks that differ only in the number of words of a later string
\* literal have different normal forms
C27_FirstLiteralMasked ==
  pc = "done" /\ Len(result) = 2 =>
    /\ DifferInFirstLiteral => result[1] = result[2]
    /\ DifferInLaterWords => result[1] # result[2]

(***************************************************************************)
(* Completeness of the greedy clustering of findDuplications               *)
(***************************************************************************)

\* blocks p < q pass the size pre-filter and score at least the threshold
QualifyingPair(p, q) ==
  /\ p < q
  /\ ~DiffersByMoreThanFifth(allBlocks[p], allBlocks[q])
  /\ ScoreAtLeast(allBlocks[p], allBlocks[q], similarityThreshold)

\* C29: findDuplications returns an empty list iff no pair of blocks i < j
\* passes the size pre-filter and scores at least the threshold; a block
\* with such a partner may still be in no cluster (C29_Witness).
C29_EmptyIffNoPair ==
  pc = "done" =>
    (result = <<>> <=> ~\E p, q \in 1..Len(allBlocks) : QualifyingPair(p, q))

\* a block outside every cluster has a qualifying partner that an earlier
\* anchor claimed
C29_Witness ==
  /\ pc = "done"
  /\ \E k, m \in 1..Len(allBlocks) :
       /\ k \notin processedBlocks
       /\ m \in processedBlocks
       /\ QualifyingPair(m, k) \/ QualifyingPair(k, m)
       /\ \E c \in 1..Len(result) : m \in IndexSet(result[c]) /\ result[c].indices[1] # m

(***************************************************************************)
(* detectDuplicateCode leaves the sources alone, with or without dryRun    *)
(***************************************************************************)

\* the entries of the project directory but for the directory of the reports
SourceEntries(tree) == SelectSeq(tree.dirs["."], LAMBDA e : e.name # ".aiguardian")

\* no step changes a file of the project or a directory other than the two
\* of the report
SourcesUntouched ==
  /\ disk'.files = disk.files
  /\ SourceEntries(disk') = SourceEntries(disk)
  /\ \A d \in {"lib", "node_modules"} : disk'.dirs[d] = disk.dirs[d]

\* C21: no step of detectDuplicateCode writes, renames or deletes a file of
\* the project (only the report file and its directory change), and the call
\* with dryRun set finds the blocks and clusters, returns the metrics and
\* makes the file system calls of the call without it, and leaves the same
\* tree.
C21_ReadOnly ==
  /\ [][SourcesUntouched]_vars
  /\ [](pc = "returned" /\ runs = 2 => Outcome = firstOutput)

\* the call with dryRun set has written a report on clusters
C21_Witness ==
  /\ pc = "returned"
  /\ runs = 2
  /\ invocation.projectPathOrOptions.value.dryRun
  /\ HasClusters
  /\ disk.reportFile # <<>>
  /\ Len(fsOps) > 2

(***************************************************************************)
(* Properties of the task registry                                         *)
(***************************************************************************)

NoDuplicateIds(list) ==
  \A p, q \in 1..Len(list) : p # q => list[p].id # list[q].id

\* the categories a task is registered in
CategoriesOf(task) ==
  IF task.projectTypes = <<>> THEN {"common"}
  ELSE {task.projectTypes[k] : k \in 1..Len(task.projectTypes)}

\* the task registered last under the id of calls[k] in category c
LastRegistered(c, k) ==
  LET same == {m \in 1..Len(calls) : calls[m].id = calls[k].id /\ c \in CategoriesOf(calls[m])}
  IN calls[CHOOSE m \in same : \A n \in same : n <= m]

\* the ids of the common tasks and of the tasks of the given types
ApplicableIds(projectTypes) ==
  {registry["common"][k].id : k \in 1..Len(registry["common"])}
  \cup UNION {{registry[projectTypes[t]][k].id : k \in 1..Len(registry[projectTypes[t]])} :
                t \in {u \in 1..Len(projectTypes) : projectTypes[u] \in DOMAIN registry}}

C30_Counters ==
  results # None =>
    /\ results.tasksRun = results.tasksSucceeded + results.tasksFailed
    /\ results.tasksRun = Len(calls)
    /\ results.success <=> results.tasksFailed = 0

\* the loop over the tasks was entered and the call has ended
LoopEnded == pc \in {"returned", "rejected"} /\ taskIndex > 0

\* the results kept under the task ids by the method called
Recorded == IF call.method = "runTasks" THEN results.taskResults ELSE managerResults

\* C22: once the loop of runTasks, runAllTasks or runSpecificTasks is
\* entered, the call returns, having run every task of the list exactly once
\* and in list order, with a result recorded under every task id, whether
\* or not a task failed or threw.
C22_SiblingsContinue ==
  LoopEnded =>
    /\ pc = "returned"
    /\ calls = tasks
    /\ \A k \in 1..Len(tasks) : tasks[k].id \in DOMAIN Recorded


=============================================================================
